---- MODULE Spec2Model ----
(***************************************************************************)
(* Verification model of cloudquill/python-projects.                       *)
(*                                                                         *)
(*  - Pycloud Deployer: the tier-2 / tier-3 provisioning flow of           *)
(*    infra_class.py + server_class.py + load_balancer_class.py (Spec) and *)
(*    the single-file variant pycloud_deployer.py (SpecMono).              *)
(*  - Serverless Movies API: the HTTP handlers of function_app.py and the  *)
(*    helpers of modules.py (SpecMovies).                                  *)
(*                                                                         *)
(* Strings of the program are TLA+ strings; Len, SubSeq and \o act on them *)
(* character by character.                                                 *)
(***************************************************************************)
EXTENDS Integers, Sequences, FiniteSets, TLC

VARIABLES
    dbserver_name, \* the DB server name the user entered
    pc,        \* position of the provisioning run ("idle", a step, "done")
    args,      \* arguments of the running tier2 / tier3 call
    idx,       \* server_number of the loop in progress
    calls,     \* remote calls issued by the current run, in order
    pending,   \* indices of calls whose long-running operation is unfinished
    log,       \* logger / print output of the current run, in order
    outcome,   \* how the current run ended: "ok" or the exception that escaped
    cloud,     \* resources of the resource group
    last,      \* summary of the previous finished run
    runs,      \* number of runs started
    infoOut,   \* what Infrastructure.info printed last
    req,       \* Movies API: the request being served
    resp,      \* Movies API: the response of the handler
    queries,   \* Movies API: the queries sent to the container
    chats,     \* Movies API: the instructions sent to co.chat
    display,   \* Movies API: the calls of display_result
    prompt,    \* deployer modules.py: the validator being run and its last candidate
    weather    \* Weather App: the run of main()

deployVars == <<dbserver_name, pc, args, idx, calls, pending, log, outcome, cloud, last, runs, infoOut>>
movieVars == <<req, resp, queries, chats, display>>
appVars == <<prompt, weather>>
vars == <<dbserver_name, pc, args, idx, calls, pending, log, outcome, cloud, last, runs, infoOut, req, resp, queries, chats, display, prompt, weather>>

(***************************************************************************)
(* Bounds of the model.                                                    *)
(***************************************************************************)
MaxWebservers == 2
MaxRuns == 2

(***************************************************************************)
(* Names.  The deployer builds every resource name from its arguments.     *)
(***************************************************************************)
group_name == "rg"
vnet_name == "vnet"
subnet_name == "subnet"
nsg_name == "nsg"
webserver_name == "web"

\* dbserver_name is entered independently of webserver_name (get_server_name):
\* it may equal <webserver_name>0.
DbServerNames == {"db", "web0"}

unique_webserver_name(server_number) == webserver_name \o ToString(server_number)
publicip_name_per_run(server_name) == server_name \o "_ip" \o ToString(runs)

publicip_name(server_name) == server_name \o "_ip"
interface_name(server_name) == server_name \o "_interface"

lb_name == group_name \o "_lb"
lb_ip_name == lb_name \o "_ip"
address_pool_name == lb_name \o "_addr_pool"

subnet_id == group_name \o "/virtualNetworks/" \o vnet_name \o "/subnets/" \o subnet_name
publicip_id(name) == group_name \o "/publicIPAddresses/" \o name
nic_id(name) == group_name \o "/networkInterfaces/" \o name
nsg_id == group_name \o "/networkSecurityGroups/" \o nsg_name
pool_id(lb, pool) == group_name \o "/loadBalancers/" \o lb \o "/backendAddressPools/" \o pool

(***************************************************************************)
(* The exceptions of azure.core.exceptions the code names, and what an     *)
(* except clause catches (ResourceNotFoundError and ResourceExistsError    *)
(* are subclasses of HttpResponseError, which is an AzureError).           *)
(***************************************************************************)
\* "HttpResponseError" stands for an HttpResponseError of any class the call
\* site does not name; ResourceExistsError is named by create_vnet and
\* create_subnet only.
SdkErrors == {"HttpResponseError", "ResourceNotFoundError"}
NetErrors == SdkErrors \cup {"ResourceExistsError"}

IsHttpResponseError(e) == e \in {"HttpResponseError", "ResourceNotFoundError", "ResourceExistsError"}
IsResourceNotFoundError(e) == e = "ResourceNotFoundError"

\* What one SDK call can do: return an object, return nothing useful (a falsy
\* result), or raise.
Outcomes == {"ok", "none"} \cup SdkErrors
OutcomesNoResult == {"ok"} \cup SdkErrors
OutcomesNet == {"ok"} \cup NetErrors

(***************************************************************************)
(* Resources.  create_or_update is a PUT: it replaces the resource of that *)
(* type and name.                                                          *)
(***************************************************************************)
Res(type, name) ==
    [type |-> type, name |-> name, subnet |-> "", ip |-> "", pool |-> "",
     nic |-> "", nsg |-> "", rules |-> {}, image |-> ""]

Put(c, r) == {x \in c : ~(x.type = r.type /\ x.name = r.name)} \cup {r}

lb_http_rule == [name |-> "lb-HTTP-rule", protocol |-> "Tcp", port |-> "80", priority |-> 100]
rdp_access_rule == [name |-> "RDP-access-rule", protocol |-> "Tcp", port |-> "3389", priority |-> 110]

\* The request bodies of create_vnet, create_nsg_group, create_subnet,
\* create_publicip_address, install_iis and create_lb.
vnet_params == [address_prefixes |-> "10.0.0.0/16"]
nsg_params_http_always(tier2Only) == [rules |-> {rdp_access_rule, lb_http_rule}]
nsg_params(tier2Only) ==
    [rules |-> IF tier2Only THEN {rdp_access_rule} ELSE {rdp_access_rule, lb_http_rule}]
subnet_params(nsg) == [address_prefix |-> "10.0.0.0/24", nsg |-> nsg]
create_publicip_params == [sku |-> "Standard", allocation |-> "Static"]
run_command_params == [commandId |-> "RunPowerShellScript"]
lb_params == [ip |-> publicip_id(lb_ip_name), pool |-> address_pool_name]

\* modules.create_nic_params: the ip configuration of a NIC; the public ip key
\* is deleted when no public ip name is given.
create_nic_params(publicip) ==
    [subnet |-> subnet_id, ip |-> IF publicip = "" THEN "" ELSE publicip_id(publicip)]

\* modules.create_server_params: the image and the NIC of a VM.
create_server_params(interface, isWebServer) ==
    [nic |-> nic_id(interface),
     image |-> IF isWebServer THEN "WindowsServer" ELSE "sql2019-ws2019"]

\* The resource a successful call leaves in the group.
Effect(c, op, name, p) ==
    CASE op = "vnet" -> Put(c, Res("vnet", name))
      [] op = "nsg" -> Put(c, [Res("nsg", name) EXCEPT !.rules = p.rules])
      [] op = "subnet" -> Put(c, [Res("subnet", name) EXCEPT !.nsg = p.nsg])
      [] op = "publicip" -> Put(c, Res("publicip", name))
      [] op = "nic" -> Put(c, [Res("nic", name) EXCEPT !.subnet = p.subnet, !.ip = p.ip])
      [] op = "nic_update" ->
            Put(c, [Res("nic", name) EXCEPT !.subnet = p.subnet, !.ip = p.ip, !.pool = p.pool])
      [] op = "vm" -> Put(c, [Res("vm", name) EXCEPT !.nic = p.nic, !.image = p.image])
      [] op = "lb" -> Put(c, [Res("lb", name) EXCEPT !.ip = p.ip, !.pool = p.pool])
      [] OTHER -> c

\* One remote call: op on name with parameters p, answered r.  waited says
\* whether the code blocks on the poller (.result() / .wait()); a long-running
\* operation the code does not wait for stays pending.  A read (pool_get) and
\* a failed request start nothing.
Issue(op, name, p, r, waited) ==
    /\ calls' = Append(calls, [op |-> op, name |-> name, p |-> p, res |-> r])
    /\ cloud' = IF r \in {"ok", "none"} THEN Effect(cloud, op, name, p) ELSE cloud
    /\ pending' = IF r \in {"ok", "none"} /\ ~waited
                  THEN pending \cup {Len(calls) + 1}
                  ELSE pending

Log(level, msg, name) == log' = Append(log, <<level, msg, name>>)
Log2(e1, e2) == log' = log \o <<e1, e2>>

\* The method returns and the flow goes on at step p.
Goto(p) == pc' = p /\ outcome' = outcome
\* An exception leaves tier2 / tier3: the run is over.
Raise(e) == pc' = "done" /\ outcome' = e
\* tier2 / tier3 returns.
Return == pc' = "done" /\ outcome' = "ok"

isTier2 == args.tier = 2

NoPrompt == [fn |-> "", candidate |-> "", verdict |-> "none"]

NoInfo == [printed |-> FALSE, tier |-> 0, servers |-> {}, error |-> ""]

IdleArgs == [tier |-> 0, number_of_webservers |-> 0]
NoRun == [ok |-> FALSE, args |-> IdleArgs, cloud |-> {}]

\* What a new run keeps of the run before it: its arguments if it succeeded,
\* and the resources the group holds as the new run starts.
Summary ==
    IF pc = "done" /\ outcome = "ok"
    THEN [ok |-> TRUE, args |-> args, cloud |-> cloud]
    ELSE [ok |-> FALSE, args |-> IdleArgs, cloud |-> cloud]

StartRun(a) ==
    /\ pc \in {"idle", "done"}
    /\ runs < MaxRuns
    /\ runs' = runs + 1
    /\ last' = Summary
    /\ args' = a
    /\ idx' = 0
    /\ calls' = <<>>
    /\ pending' = {}
    /\ log' = <<>>
    /\ outcome' = "running"
    /\ pc' = "create_vnet"
    /\ infoOut' = NoInfo
    /\ cloud' = cloud
    /\ dbserver_name' = dbserver_name

(***************************************************************************)
(* infra_class.py: Infrastructure                                          *)
(***************************************************************************)
tier2 ==
    /\ StartRun([tier |-> 2, number_of_webservers |-> 1])
    /\ UNCHANGED <<movieVars, appVars>>

tier3 ==
    /\ \E n \in 1..MaxWebservers :
          StartRun([tier |-> 3, number_of_webservers |-> n])
    /\ UNCHANGED <<movieVars, appVars>>

create_vnet ==
    /\ pc = "create_vnet"
    /\ \E r \in OutcomesNet :
          /\ Issue("vnet", vnet_name, vnet_params, r, TRUE)
          /\ IF r = "ok"
             THEN Log("info", "VNet created successfuly", vnet_name) /\ Goto("create_nsg_group")
             ELSE \* except (ResourceExistsError, HttpResponseError)
                  Log("error", "Possible conflicting address space error.", vnet_name)
                  /\ Raise("AzureError")
    /\ UNCHANGED <<dbserver_name, args, idx, last, runs, infoOut, movieVars, appVars>>

create_nsg_group ==
    /\ pc = "create_nsg_group"
    /\ \E r \in Outcomes :
          /\ Issue("nsg", nsg_name, nsg_params(isTier2), r, TRUE)
          /\ CASE r = "ok" ->
                    Log("info", "NSG created successfully.", nsg_name) /\ Goto("create_subnet")
               [] r = "none" ->
                    \* create_infrastructure: nsg_info is falsy
                    Log("info", "NSG created successfully.", nsg_name) /\ Raise("AzureError")
               [] OTHER ->
                    Log("error", "NSG information could not be created.", nsg_name)
                    /\ Raise("AzureError")
    /\ UNCHANGED <<dbserver_name, args, idx, last, runs, infoOut, movieVars, appVars>>

create_subnet_except_swallow ==
    /\ Log("error", "Possible conflicting address space error.", subnet_name)
    /\ Goto("create_publicip_address")

\* except (ResourceExistsError, HttpResponseError) of create_subnet
create_subnet_except ==
    /\ Log("error", "Possible conflicting address space error.", subnet_name)
    /\ Raise("AzureError")

create_subnet ==
    /\ pc = "create_subnet"
    /\ \E r \in OutcomesNet :
          /\ Issue("subnet", subnet_name, subnet_params(nsg_id), r, TRUE)
          /\ IF r = "ok"
             THEN Log("info", "Subnet created successfully.", subnet_name)
                  /\ Goto("create_publicip_address")
             ELSE create_subnet_except
    /\ UNCHANGED <<dbserver_name, args, idx, last, runs, infoOut, movieVars, appVars>>

(***************************************************************************)
(* server_class.py: Server, DBServer                                       *)
(***************************************************************************)
SetMax(S) == CHOOSE m \in S : \A x \in S : x <= m

\* publicip_info of create_webserver: what create_publicip_address returned.
publicip_info ==
    LET I == {i \in DOMAIN calls : calls[i].op = "publicip"}
    IN IF I = {} THEN "unset" ELSE calls[SetMax(I)].res

\* Server.create_publicip_address, called by create_webserver.
create_publicip_address ==
    /\ pc = "create_publicip_address"
    /\ LET name == publicip_name(unique_webserver_name(idx)) IN
       \E r \in Outcomes :
          /\ Issue("publicip", name, create_publicip_params, r, TRUE)
          /\ IF r \in {"ok", "none"}
             THEN Log("info", "created successfully.", name) /\ Goto("create_nic")
             ELSE \* except HttpResponseError
                  Log("error", "Public IP count limit may have been reached.", name)
                  /\ Raise("AzureError")
    /\ UNCHANGED <<dbserver_name, args, idx, last, runs, infoOut, movieVars, appVars>>

\* Server.create_nic inside the try of create_webserver: the poller that
\* begin_create_or_update returns is dropped.
create_nic ==
    /\ pc = "create_nic"
    /\ LET server == unique_webserver_name(idx)
           name == interface_name(server) IN
       \E r \in OutcomesNoResult :
          /\ Issue("nic", name, create_nic_params(publicip_name(server)), r, FALSE)
          /\ CASE r = "ok" ->
                    Log2(<<"info", "Creating NIC interface", server>>,
                         <<"info", "NIC created successfully.", name>>)
                    /\ Goto("create_vm")
               [] IsResourceNotFoundError(r) ->
                    \* except ResourceNotFoundError of create_webserver
                    Log2(<<"info", "Creating NIC interface", server>>,
                         <<"error", "There was an error creating a webserver's resource.", server>>)
                    /\ Raise("AzureError")
               [] OTHER ->
                    Log("info", "Creating NIC interface", server) /\ Raise(r)
    /\ UNCHANGED <<dbserver_name, args, idx, last, runs, infoOut, movieVars, appVars>>

\* virtual_machines.begin_create_or_update(...).result() of create_webserver.
create_vm ==
    /\ pc = "create_vm"
    /\ LET server == unique_webserver_name(idx) IN
       \E r \in OutcomesNoResult :
          /\ Issue("vm", server, create_server_params(interface_name(server), TRUE), r, TRUE)
          /\ CASE r = "ok" ->
                    Log2(<<"info", "Creating instance", server>>,
                         <<"info", "deployment status", server>>)
                    /\ Goto("install_iis")
               [] IsResourceNotFoundError(r) ->
                    Log2(<<"info", "Creating instance", server>>,
                         <<"error", "There was an error creating a webserver's resource.", server>>)
                    /\ Raise("AzureError")
               [] OTHER ->
                    Log("info", "Creating instance", server) /\ Raise(r)
    /\ UNCHANGED <<dbserver_name, args, idx, last, runs, infoOut, movieVars, appVars>>

\* Server.print_webserver_ip_address
print_webserver_ip_address(server, publicip) ==
    IF publicip = "ok"
    THEN <<"print", "Login information", server>>
    ELSE <<"error", "Cannot retrieve IP address", server>>

NextServer_skips_dbserver ==
    IF idx + 1 < args.number_of_webservers
    THEN idx' = idx + 1 /\ Goto("create_publicip_address")
    ELSE idx' = idx /\ Goto("create_lb_publicip")

\* tier2 calls create_webserver once; the loop of tier3 calls it for
\* server_number 0 .. number_of_webservers - 1; create_dbserver comes next.
NextServer ==
    IF idx + 1 < args.number_of_webservers
    THEN idx' = idx + 1 /\ Goto("create_publicip_address")
    ELSE idx' = idx /\ Goto("create_dbserver_nic")

\* Server.install_iis and print_webserver_ip_address, the end of
\* create_webserver; then the loop of tier3 goes on, or create_dbserver starts.
install_iis ==
    /\ pc = "install_iis"
    /\ LET server == unique_webserver_name(idx) IN
       \E r \in OutcomesNoResult :
          /\ Issue("iis", server, run_command_params, r, FALSE)
          /\ IF r = "ok"
             THEN /\ Log2(<<"info", "Setting up IIS", server>>,
                          print_webserver_ip_address(server, publicip_info))
                  /\ NextServer
             ELSE /\ Log("info", "Setting up IIS", server)
                  /\ idx' = idx
                  /\ Raise(r)
    /\ UNCHANGED <<dbserver_name, args, last, runs, infoOut, movieVars, appVars>>

\* DBServer.create_dbserver: create_nic
create_dbserver_nic ==
    /\ pc = "create_dbserver_nic"
    /\ LET server == dbserver_name
           name == interface_name(server) IN
       \E r \in OutcomesNoResult :
          /\ Issue("nic", name, create_nic_params(""), r, FALSE)
          /\ CASE r = "ok" ->
                    Log2(<<"info", "Creating NIC interface", server>>,
                         <<"info", "NIC created successfully.", name>>)
                    /\ Goto("create_dbserver_vm")
               [] IsResourceNotFoundError(r) ->
                    Log2(<<"info", "Creating NIC interface", server>>,
                         <<"error", "There may have been an error creating the dbserver's resource", server>>)
                    /\ Raise("AzureError")
               [] OTHER ->
                    Log("info", "Creating NIC interface", server) /\ Raise(r)
    /\ UNCHANGED <<dbserver_name, args, idx, last, runs, infoOut, movieVars, appVars>>

AfterDbserverCreated_always_lb == Goto("create_lb_publicip")

\* After create_dbserver tier2 returns and tier3 calls create_lb.
AfterDbserverCreated == IF isTier2 THEN Return ELSE Goto("create_lb_publicip")

\* DBServer.create_dbserver: the VM.
create_dbserver_vm ==
    /\ pc = "create_dbserver_vm"
    /\ LET server == dbserver_name IN
       \E r \in OutcomesNoResult :
          /\ Issue("vm", server, create_server_params(interface_name(server), FALSE), r, TRUE)
          /\ CASE r = "ok" ->
                    /\ Log2(<<"info", "Creating the Database server instance", server>>,
                            <<"info", "Database server deployment status", server>>)
                    /\ AfterDbserverCreated
               [] IsResourceNotFoundError(r) ->
                    Log2(<<"info", "Creating the Database server instance", server>>,
                         <<"error", "There may have been an error creating the dbserver's resource", server>>)
                    /\ Raise("AzureError")
               [] OTHER ->
                    Log("info", "Creating the Database server instance", server) /\ Raise(r)
    /\ UNCHANGED <<dbserver_name, args, idx, last, runs, infoOut, movieVars, appVars>>

(***************************************************************************)
(* load_balancer_class.py: LoadBalancer                                    *)
(***************************************************************************)
\* create_lb: create_publicip_address and the test of pub_ip_info.
create_lb_publicip ==
    /\ pc = "create_lb_publicip"
    /\ \E r \in Outcomes :
          /\ Issue("publicip", lb_ip_name, create_publicip_params, r, TRUE)
          /\ CASE r = "ok" ->
                    Log("info", "created successfully.", lb_ip_name) /\ Goto("create_lb")
               [] r = "none" ->
                    Log("info", "created successfully.", lb_ip_name) /\ Raise("AzureError")
               [] OTHER ->
                    Log("error", "Public IP count limit may have been reached.", lb_ip_name)
                    /\ Raise("AzureError")
    /\ UNCHANGED <<dbserver_name, args, idx, last, runs, infoOut, movieVars, appVars>>

\* create_lb: load_balancers.begin_create_or_update(...).result(), in no try.
create_lb ==
    /\ pc = "create_lb"
    /\ \E r \in OutcomesNoResult :
          /\ Issue("lb", lb_name, lb_params, r, TRUE)
          /\ IF r = "ok"
             THEN Log2(<<"info", "Creating instance", lb_name>>,
                       <<"info", "deployment status", lb_name>>)
                  /\ Goto("get_backend_pool")
             ELSE Log("info", "Creating instance", lb_name) /\ Raise(r)
    /\ UNCHANGED <<dbserver_name, args, idx, last, runs, infoOut, movieVars, appVars>>

\* add_webserver_to_backend: load_balancer_backend_address_pools.get(...).id
get_backend_pool ==
    /\ pc = "get_backend_pool"
    /\ \E r \in Outcomes :
          /\ Issue("pool_get", address_pool_name, [lb |-> lb_name], r, TRUE)
          /\ log' = log
          /\ CASE r = "ok" -> idx' = 0 /\ Goto("add_webserver_to_backend")
               [] r = "none" -> idx' = idx /\ Raise("AzureError")
               [] OTHER -> idx' = idx /\ Raise(r)
    /\ UNCHANGED <<dbserver_name, args, last, runs, infoOut, movieVars, appVars>>

\* add_webserver_to_backend: one turn of the loop.  The NIC is put again with
\* the parameters of create_nic_params plus the backend pool; the poller is
\* dropped.
add_webserver_to_backend ==
    /\ pc = "add_webserver_to_backend"
    /\ LET server == unique_webserver_name(idx)
           nic_params == create_nic_params(publicip_name(server))
           p == [subnet |-> nic_params.subnet, ip |-> nic_params.ip,
                 pool |-> pool_id(lb_name, address_pool_name)] IN
       \E r \in OutcomesNoResult :
          /\ Issue("nic_update", interface_name(server), p, r, FALSE)
          /\ IF r = "ok"
             THEN /\ Log2(<<"info", "Adding to backend pool", server>>,
                          <<"info", "Added to backend pool", server>>)
                  /\ IF idx + 1 < args.number_of_webservers
                     THEN idx' = idx + 1 /\ Goto("add_webserver_to_backend")
                     ELSE idx' = idx /\ Return
             ELSE \* except HttpResponseError
                  /\ Log2(<<"info", "Adding to backend pool", server>>,
                          <<"error", "Error adding to backend.", server>>)
                  /\ idx' = idx
                  /\ Raise("AzureError")
    /\ UNCHANGED <<dbserver_name, args, last, runs, infoOut, movieVars, appVars>>

(***************************************************************************)
(* pycloud_deployer.py: the single-file deployer.  Its classes have the    *)
(* methods of the three modules above with other error handling: several   *)
(* handlers end with the expression statement SystemExit(1), which builds  *)
(* the exception and does not raise it.                                    *)
(***************************************************************************)
\* The handler's last statement, SystemExit(1), run after call number k failed.
SystemExit1(k) == <<"exit", "SystemExit(1)", k>>

pd_tier2 ==
    /\ StartRun([tier |-> 2, number_of_webservers |-> 1])
    /\ UNCHANGED <<movieVars, appVars>>

pd_tier3 ==
    /\ \E n \in 1..MaxWebservers :
          StartRun([tier |-> 3, number_of_webservers |-> n])
    /\ UNCHANGED <<movieVars, appVars>>

pd_create_vnet ==
    /\ pc = "create_vnet"
    /\ \E r \in OutcomesNet :
          /\ Issue("vnet", vnet_name, vnet_params, r, TRUE)
          /\ IF r = "ok"
             THEN Log("info", "VNet created successfuly", vnet_name)
             ELSE Log2(<<"error", "Possible conflicting address space error", vnet_name>>,
                       SystemExit1(Len(calls) + 1))
          /\ Goto("create_nsg_group")
    /\ UNCHANGED <<dbserver_name, args, idx, last, runs, infoOut, movieVars, appVars>>

\* create_nsg_group has no try; create_infrastructure then reads nsg_info.id
\* inside try / except UnboundLocalError.
pd_create_nsg_group ==
    /\ pc = "create_nsg_group"
    /\ \E r \in Outcomes :
          /\ Issue("nsg", nsg_name, nsg_params(isTier2), r, TRUE)
          /\ CASE r = "ok" ->
                    Log("info", "NSG created successfully.", nsg_name) /\ Goto("create_subnet")
               [] r = "none" ->
                    Log("info", "NSG created successfully.", nsg_name) /\ Raise("AttributeError")
               [] OTHER ->
                    Log("info", "Creating NSG group", nsg_name) /\ Raise(r)
    /\ UNCHANGED <<dbserver_name, args, idx, last, runs, infoOut, movieVars, appVars>>

pd_create_subnet ==
    /\ pc = "create_subnet"
    /\ \E r \in OutcomesNet :
          /\ Issue("subnet", subnet_name, subnet_params(nsg_id), r, TRUE)
          /\ IF r = "ok"
             THEN Log("info", "Subnet created successfully.", subnet_name)
             ELSE Log2(<<"error", "Possible conflicting address space error", subnet_name>>,
                       SystemExit1(Len(calls) + 1))
          /\ Goto("create_publicip_address")
    /\ UNCHANGED <<dbserver_name, args, idx, last, runs, infoOut, movieVars, appVars>>

\* Server.create_publicip_address: the handler logs and falls off the end, so
\* the caller gets None.
pd_create_publicip_address ==
    /\ pc = "create_publicip_address"
    /\ LET name == publicip_name(unique_webserver_name(idx)) IN
       \E r \in Outcomes :
          /\ Issue("publicip", name, create_publicip_params, r, TRUE)
          /\ IF r \in {"ok", "none"}
             THEN Log("info", "created successfully.", name)
             ELSE Log("error", "Public IP count limit may have been reached", name)
          /\ Goto("create_nic")
    /\ UNCHANGED <<dbserver_name, args, idx, last, runs, infoOut, movieVars, appVars>>

\* create_nic inside the try of create_webserver.  After the handler of
\* ResourceNotFoundError the method goes on to read vm_info, which was never
\* bound.
pd_create_nic ==
    /\ pc = "create_nic"
    /\ LET server == unique_webserver_name(idx)
           name == interface_name(server) IN
       \E r \in OutcomesNoResult :
          /\ Issue("nic", name, create_nic_params(publicip_name(server)), r, FALSE)
          /\ CASE r = "ok" ->
                    Log("info", "NIC created successfully.", name) /\ Goto("create_vm")
               [] IsResourceNotFoundError(r) ->
                    Log2(<<"error", "There may have been an error creating a webserver's dependent resource", server>>,
                         SystemExit1(Len(calls) + 1))
                    /\ Raise("UnboundLocalError")
               [] OTHER ->
                    Log("info", "Creating NIC interface", server) /\ Raise(r)
    /\ UNCHANGED <<dbserver_name, args, idx, last, runs, infoOut, movieVars, appVars>>

pd_create_vm ==
    /\ pc = "create_vm"
    /\ LET server == unique_webserver_name(idx) IN
       \E r \in OutcomesNoResult :
          /\ Issue("vm", server, create_server_params(interface_name(server), TRUE), r, TRUE)
          /\ CASE r = "ok" ->
                    Log("info", "deployment status", server) /\ Goto("install_iis")
               [] IsResourceNotFoundError(r) ->
                    Log2(<<"error", "There may have been an error creating a webserver's dependent resource", server>>,
                         SystemExit1(Len(calls) + 1))
                    /\ Raise("UnboundLocalError")
               [] OTHER ->
                    Log("info", "Creating instance", server) /\ Raise(r)
    /\ UNCHANGED <<dbserver_name, args, idx, last, runs, infoOut, movieVars, appVars>>

\* install_iis, then print_webserver_ip_address, which reads
\* publicip_info.ip_address with no test of publicip_info.
pd_install_iis ==
    /\ pc = "install_iis"
    /\ LET server == unique_webserver_name(idx) IN
       \E r \in OutcomesNoResult :
          /\ Issue("iis", server, run_command_params, r, FALSE)
          /\ Log("info", "Setting up IIS", server)
          /\ CASE r # "ok" -> idx' = idx /\ Raise(r)
               [] r = "ok" /\ publicip_info # "ok" -> idx' = idx /\ Raise("AttributeError")
               [] OTHER ->
                    IF idx + 1 < args.number_of_webservers
                    THEN idx' = idx + 1 /\ Goto("create_publicip_address")
                    ELSE idx' = idx /\ Goto("create_dbserver_nic")
    /\ UNCHANGED <<dbserver_name, args, last, runs, infoOut, movieVars, appVars>>

\* After the handler of create_dbserver the method returns normally.
AfterDbserver == IF isTier2 THEN Return ELSE Goto("create_lb_publicip")

pd_create_dbserver_nic ==
    /\ pc = "create_dbserver_nic"
    /\ LET server == dbserver_name
           name == interface_name(server) IN
       \E r \in OutcomesNoResult :
          /\ Issue("nic", name, create_nic_params(""), r, FALSE)
          /\ CASE r = "ok" ->
                    Log("info", "NIC created successfully.", name) /\ Goto("create_dbserver_vm")
               [] IsResourceNotFoundError(r) ->
                    Log2(<<"error", "There may have been an error creating the dbserver's resource", server>>,
                         SystemExit1(Len(calls) + 1))
                    /\ AfterDbserver
               [] OTHER ->
                    Log("info", "Creating NIC interface", server) /\ Raise(r)
    /\ UNCHANGED <<dbserver_name, args, idx, last, runs, infoOut, movieVars, appVars>>

pd_create_dbserver_vm ==
    /\ pc = "create_dbserver_vm"
    /\ LET server == dbserver_name IN
       \E r \in OutcomesNoResult :
          /\ Issue("vm", server, create_server_params(interface_name(server), FALSE), r, TRUE)
          /\ CASE r = "ok" ->
                    Log("info", "Database server deployment status", server) /\ AfterDbserver
               [] IsResourceNotFoundError(r) ->
                    Log2(<<"error", "There may have been an error creating the dbserver's resource", server>>,
                         SystemExit1(Len(calls) + 1))
                    /\ AfterDbserver
               [] OTHER ->
                    Log("info", "Creating the Database server instance", server) /\ Raise(r)
    /\ UNCHANGED <<dbserver_name, args, idx, last, runs, infoOut, movieVars, appVars>>

\* create_lb: create_publicip_address returns None after an error, and
\* pub_ip_info.id then raises AttributeError, which no handler of create_lb
\* names.
pd_create_lb_publicip ==
    /\ pc = "create_lb_publicip"
    /\ \E r \in Outcomes :
          /\ Issue("publicip", lb_ip_name, create_publicip_params, r, TRUE)
          /\ CASE r = "ok" ->
                    Log("info", "created successfully.", lb_ip_name) /\ Goto("create_lb")
               [] r = "none" ->
                    Log("info", "created successfully.", lb_ip_name) /\ Raise("AttributeError")
               [] OTHER ->
                    Log("error", "Public IP count limit may have been reached", lb_ip_name)
                    /\ Raise("AttributeError")
    /\ UNCHANGED <<dbserver_name, args, idx, last, runs, infoOut, movieVars, appVars>>

pd_create_lb ==
    /\ pc = "create_lb"
    /\ \E r \in OutcomesNoResult :
          /\ Issue("lb", lb_name, lb_params, r, TRUE)
          /\ CASE r = "ok" ->
                    Log("info", "deployment status", lb_name) /\ Goto("get_backend_pool")
               [] IsResourceNotFoundError(r) ->
                    Log2(<<"error", "There may have been an error creating the LB dependent resource", lb_name>>,
                         SystemExit1(Len(calls) + 1))
                    /\ Goto("get_backend_pool")
               [] OTHER ->
                    Log("info", "Creating instance", lb_name) /\ Raise(r)
    /\ UNCHANGED <<dbserver_name, args, idx, last, runs, infoOut, movieVars, appVars>>

\* add_webserver_to_backend: the lookup, inside try / except
\* ResourceNotFoundError; the id is not tested.
pd_get_backend_pool ==
    /\ pc = "get_backend_pool"
    /\ \E r \in Outcomes :
          /\ Issue("pool_get", address_pool_name, [lb |-> lb_name], r, TRUE)
          /\ CASE r \in {"ok", "none"} ->
                    log' = log /\ idx' = 0 /\ Goto("add_webserver_to_backend")
               [] IsResourceNotFoundError(r) ->
                    Log("error", "A referenced resource was not found", address_pool_name)
                    /\ idx' = idx /\ Return
               [] OTHER -> log' = log /\ idx' = idx /\ Raise(r)
    /\ UNCHANGED <<dbserver_name, args, last, runs, infoOut, movieVars, appVars>>

\* address_pool_id of add_webserver_to_backend: what the lookup returned.
address_pool_id ==
    IF calls # <<>> /\ \E i \in DOMAIN calls : calls[i].op = "pool_get" /\ calls[i].res = "ok"
    THEN pool_id(lb_name, address_pool_name)
    ELSE ""

\* One turn of the loop: the handler of HttpResponseError logs, and "Added" is
\* logged after it all the same.
pd_add_webserver_to_backend ==
    /\ pc = "add_webserver_to_backend"
    /\ LET server == unique_webserver_name(idx)
           nic_params == create_nic_params(publicip_name(server))
           p == [subnet |-> nic_params.subnet, ip |-> nic_params.ip,
                 pool |-> address_pool_id] IN
       \E r \in OutcomesNoResult :
          /\ Issue("nic_update", interface_name(server), p, r, FALSE)
          /\ IF r = "ok"
             THEN Log("info", "Added to backend pool", server)
             ELSE Log2(<<"error", "Error adding", server>>,
                       <<"info", "Added to backend pool", server>>)
          /\ IF idx + 1 < args.number_of_webservers
             THEN idx' = idx + 1 /\ Goto("add_webserver_to_backend")
             ELSE idx' = idx /\ Return
    /\ UNCHANGED <<dbserver_name, args, last, runs, infoOut, movieVars, appVars>>

(***************************************************************************)
(* infra_classes.py: WebServer.create_webserver(server_number).  One step  *)
(* is one remote call of the method; nothing in it catches an exception.   *)
(***************************************************************************)
WebServer_create_webserver ==
    LET server_number == idx
        network_name == group_name \o "_network"
        wc_nsg_name == group_name \o "_nsg"
        wc_interface_name == "webserver" \o ToString(server_number) \o "_interface"
        wc_publicip_name == "webserver" \o ToString(server_number) \o "_publicip"
        vm_name == group_name \o "_webserver" \o ToString(server_number)
        wc_nsg_id == group_name \o "/networkSecurityGroups/" \o wc_nsg_name
        Step(said, op, name, p, waited, next) ==
            \E r \in OutcomesNoResult :
                /\ Issue(op, name, p, r, waited)
                /\ Log("print", said, name)
                /\ IF r = "ok"
                   THEN IF next = "done" THEN Return ELSE Goto(next)
                   ELSE Raise(r)
                /\ UNCHANGED <<dbserver_name, args, idx, last, runs, infoOut>>
    IN
    /\ \/ /\ pc \in {"idle", "done"}
          /\ runs < MaxRuns
          /\ \E n \in 0..(MaxWebservers - 1) :
                /\ idx' = n
                /\ pc' = IF n = 0 THEN "wc_resource_group" ELSE "wc_publicip"
          /\ runs' = runs + 1
          /\ last' = Summary
          /\ args' = IdleArgs
          /\ calls' = <<>>
          /\ pending' = {}
          /\ log' = <<>>
          /\ outcome' = "running"
          /\ UNCHANGED <<dbserver_name, cloud, infoOut>>
       \/ /\ pc = "wc_resource_group"
          /\ Step("Creating resoure group", "rg", group_name, [location |-> "southafricanorth"],
                  TRUE, "wc_nsg")
       \/ /\ pc = "wc_nsg"
          /\ Step("Creating NSG group", "nsg", wc_nsg_name,
                  [rules |-> {lb_http_rule, rdp_access_rule}], TRUE, "wc_vnet")
       \/ /\ pc = "wc_vnet"
          /\ Step("Creating VNet", "vnet", network_name, vnet_params, TRUE, "wc_subnet")
       \/ /\ pc = "wc_subnet"
          /\ Step("Creating subnet within VNet", "subnet", "subnet0", subnet_params(wc_nsg_id),
                  TRUE, "wc_publicip")
       \/ /\ pc = "wc_publicip"
          /\ Step("Creating webserver's IP address", "publicip", wc_publicip_name,
                  create_publicip_params, TRUE, "wc_nic")
       \/ /\ pc = "wc_nic"
          /\ Step("Creating webserver's NIC interface", "nic", wc_interface_name,
                  [subnet |-> group_name \o "/subnets/subnet0",
                   ip |-> group_name \o "/publicIPAddresses/" \o wc_publicip_name],
                  FALSE, "wc_vm")
       \/ /\ pc = "wc_vm"
          /\ Step("Creating webserver instance", "vm", vm_name,
                  [nic |-> group_name \o "/networkInterfaces/" \o wc_interface_name,
                   image |-> "WindowsServer"], TRUE, "wc_run_command")
       \/ /\ pc = "wc_run_command"
          /\ Step("Setting up IIS", "iis", vm_name, run_command_params, TRUE, "done")
    /\ UNCHANGED <<movieVars, appVars>>

(***************************************************************************)
(* The cloud side: a long-running operation nobody waits for finishes at   *)
(* some later time.                                                        *)
(***************************************************************************)
LROComplete ==
    /\ \E i \in pending : pending' = pending \ {i}
    /\ UNCHANGED <<dbserver_name, pc, args, idx, calls, log, outcome, cloud, last, runs, infoOut, movieVars, appVars>>

(***************************************************************************)
(* infra_class.py: Infrastructure.info                                     *)
(***************************************************************************)
DropLast3(name) == IF Len(name) >= 3 THEN SubSeq(name, 1, Len(name) - 3) ELSE ""

load_balancers_list == {r \in cloud : r.type = "lb"}
vm_names == {r.name : r \in {x \in cloud : x.type = "vm"}}
ip_names == {DropLast3(r.name) : r \in {x \in cloud : x.type = "publicip"}}

info_tier_by_vm_count == IF Cardinality(vm_names) > 2 THEN 3 ELSE 2

\* tier = 2 if not check_lb else 3
info_tier == IF load_balancers_list = {} THEN 2 ELSE 3

info ==
    /\ pc \in {"idle", "done"}
    /\ infoOut = NoInfo
    /\ \E r \in OutcomesNoResult :
          infoOut' = CASE r = "ok" ->
                            [printed |-> TRUE, tier |-> info_tier,
                             servers |-> ip_names \cap vm_names, error |-> ""]
                       [] IsResourceNotFoundError(r) ->
                            [NoInfo EXCEPT !.error = "Resource Group not found."]
                       [] OTHER ->
                            [NoInfo EXCEPT !.error = "Unexpected response from Azure"]
    /\ UNCHANGED <<dbserver_name, pc, args, idx, calls, pending, log, outcome, cloud, last, runs, movieVars, appVars>>


(***************************************************************************)
(* Serverless Movies API: function_app.py and modules.py.                  *)
(*                                                                         *)
(* Python values that reach json.dumps are tagged records: [str |-> s],    *)
(* [int |-> n], [list |-> <<v1, ...>>] and [dict |-> << <<k1, v1>>, ...>>] *)
(* (a dict keeps its insertion order).                                     *)
(***************************************************************************)
MaxTokens == 3

JStr(s) == [str |-> s]
JInt(n) == [int |-> n]
JList(vs) == [list |-> vs]
JDict(kvs) == [dict |-> kvs]
IsStr(v) == "str" \in DOMAIN v
IsInt(v) == "int" \in DOMAIN v
IsList(v) == "list" \in DOMAIN v

Char(s, i) == SubSeq(s, i, i)

\* s.find(c) from position i on, 0 when c does not occur
RECURSIVE Find(_, _, _)
Find(s, c, i) ==
    IF i > Len(s) THEN 0
    ELSE IF Char(s, i) = c THEN i
    ELSE Find(s, c, i + 1)

\* str.split(sep) for a one-character separator
RECURSIVE split(_, _)
split(s, sep) ==
    LET i == Find(s, sep, 1) IN
    IF i = 0 THEN <<s>>
    ELSE <<SubSeq(s, 1, i - 1)>> \o split(SubSeq(s, i + 1, Len(s)), sep)

Whitespace == {" ", "\t", "\n", "\r"}

RECURSIVE lstrip(_)
lstrip(s) ==
    IF s # "" /\ Char(s, 1) \in Whitespace THEN lstrip(SubSeq(s, 2, Len(s))) ELSE s

RECURSIVE rstrip(_)
rstrip(s) ==
    IF s # "" /\ Char(s, Len(s)) \in Whitespace THEN rstrip(SubSeq(s, 1, Len(s) - 1)) ELSE s

\* str.strip()
strip(s) == rstrip(lstrip(s))

Digits == {"0", "1", "2", "3", "4", "5", "6", "7", "8", "9"}

\* The digit part of an integer literal: digits, single underscores between them.
DigitPart(u) ==
    /\ u # ""
    /\ Char(u, 1) \in Digits
    /\ Char(u, Len(u)) \in Digits
    /\ \A i \in 1..Len(u) : Char(u, i) \in Digits \cup {"_"}
    /\ \A i \in 1..(Len(u) - 1) : ~(Char(u, i) = "_" /\ Char(u, i + 1) = "_")

\* int(s) of a str returns a value: surrounding whitespace, an optional
\* sign, a digit part; it raises ValueError otherwise.
int_returns(s) ==
    LET t == strip(s)
        u == IF t # "" /\ Char(t, 1) \in {"+", "-"} THEN SubSeq(t, 2, Len(t)) ELSE t
    IN DigitPart(u)

\* urllib.parse.unquote on the escapes that occur in Urls; any other
\* character is copied.
RECURSIVE unquote(_)
unquote(s) ==
    IF s = "" THEN ""
    ELSE IF Len(s) >= 3 /\ SubSeq(s, 1, 3) = "%20" THEN " " \o unquote(SubSeq(s, 4, Len(s)))
    ELSE Char(s, 1) \o unquote(SubSeq(s, 2, Len(s)))

UpperCase == "ABCDEFGHIJKLMNOPQRSTUVWXYZ"
LowerCase == "abcdefghijklmnopqrstuvwxyz"

\* LOWER() of the query language
RECURSIVE LOWER(_)
LOWER(s) ==
    IF s = "" THEN ""
    ELSE LET i == Find(UpperCase, Char(s, 1), 1) IN
         (IF i = 0 THEN Char(s, 1) ELSE Char(LowerCase, i)) \o LOWER(SubSeq(s, 2, Len(s)))

\* separator.join(strings)
RECURSIVE join(_, _)
join(sep, strs) ==
    IF strs = <<>> THEN ""
    ELSE IF Len(strs) = 1 THEN strs[1]
    ELSE strs[1] \o sep \o join(sep, Tail(strs))

RECURSIVE Spaces(_)
Spaces(n) == IF n = 0 THEN "" ELSE " " \o Spaces(n - 1)

\* json.dumps of a str: the quote and the backslash are escaped
RECURSIVE escape(_)
escape(s) ==
    IF s = "" THEN ""
    ELSE (IF Char(s, 1) \in {"\"", "\\"} THEN "\\" \o Char(s, 1) ELSE Char(s, 1))
         \o escape(SubSeq(s, 2, Len(s)))

\* json.dumps(v, indent=4) at nesting depth d
RECURSIVE dumps(_, _)
dumps(v, d) ==
    LET inner == "\n" \o Spaces(4 * (d + 1))
        close == "\n" \o Spaces(4 * d)
    IN
    IF IsStr(v) THEN "\"" \o escape(v.str) \o "\""
    ELSE IF IsInt(v) THEN ToString(v.int)
    ELSE IF IsList(v) THEN
        IF v.list = <<>> THEN "[]"
        ELSE "[" \o inner
             \o join("," \o inner, [i \in 1..Len(v.list) |-> dumps(v.list[i], d + 1)])
             \o close \o "]"
    ELSE
        IF v.dict = <<>> THEN "{}"
        ELSE "{" \o inner
             \o join("," \o inner,
                     [i \in 1..Len(v.dict) |->
                        "\"" \o escape(v.dict[i][1]) \o "\": " \o dumps(v.dict[i][2], d + 1)])
             \o close \o "}"

\* The movie-info container: documents with title, year and genres.
container ==
    << [title |-> "a", year |-> JInt(11), genres |-> <<"x", "y">>],
       [title |-> "A1", year |-> JStr("11"), genres |-> <<"x">>],
       [title |-> "1", year |-> JInt(1), genres |-> <<>>] >>

\* ai_summary: the default '' of display_result or the object co.chat returns
NoSummary == [given |-> FALSE, text |-> ""]
ChatResponse(text) == [given |-> TRUE, text |-> text]
SummaryTexts == {"S", ""}

\* d[k] of a dict
getitem(d, k) == d.dict[CHOOSE i \in 1..Len(d.dict) : d.dict[i][1] = k][2]

StrList(strs) == JList([i \in 1..Len(strs) |-> JStr(strs[i])])
Strs(v) == [i \in 1..Len(v.list) |-> v.list[i].str]

summary_dict_year_last(result, ai_summary) ==
    JDict(<< <<"Title", getitem(result.list[1], "title")>>,
             <<"Genres", JStr(join(", ", Strs(getitem(result.list[1], "genres"))))>>,
             <<"Summary", JStr(ai_summary.text)>>,
             <<"Year", getitem(result.list[1], "year")>> >>)

\* content_to_display of display_result when a summary is given
summary_dict(result, ai_summary) ==
    JDict(<< <<"Title", getitem(result.list[1], "title")>>,
             <<"Year", getitem(result.list[1], "year")>>,
             <<"Genres", JStr(join(", ", Strs(getitem(result.list[1], "genres"))))>>,
             <<"Summary", JStr(ai_summary.text)>> >>)

display_result(result, ai_summary) ==
    IF ai_summary.given
    THEN dumps(summary_dict(result, ai_summary), 0)
    ELSE dumps(result, 0)

\* One call of display_result, as the handlers record it.
Displayed(result, ai_summary) ==
    [result |-> result, ai_summary |-> ai_summary, out |-> display_result(result, ai_summary)]

DbOutcomes == {"ok", "raise"}
ChatOutcomes == {"raise"} \cup SummaryTexts
db_error_message == "An error occurred while querying the database. Please try again later."

\* query_db: the rows the query selects, or the formatted error message
\* when container.query_items or the iteration over its result raises.
query_db(rows, dbres) ==
    IF dbres = "raise"
    THEN JStr(display_result(JStr(db_error_message), NoSummary))
    ELSE JList(rows)

query_db_displays(dbres) ==
    IF dbres = "raise" THEN <<Displayed(JStr(db_error_message), NoSummary)>> ELSE <<>>

\* SELECT c.title Title, c.year Year, c.genres Genres
TitleYearGenres(item) ==
    JDict(<< <<"Title", JStr(item.title)>>, <<"Year", item.year>>,
             <<"Genres", StrList(item.genres)>> >>)

\* SELECT c.title, c.year, c.genres
title_year_genres(item) ==
    JDict(<< <<"title", JStr(item.title)>>, <<"year", item.year>>,
             <<"genres", StrList(item.genres)>> >>)

\* convert_to_list of the items a query selects
TitleYearGenresRows(items) == [i \in 1..Len(items) |-> TitleYearGenres(items[i])]
title_year_genres_rows(items) == [i \in 1..Len(items) |-> title_year_genres(items[i])]

NoRequest == [url |-> "", function |-> ""]
NoResponse == [status_code |-> 0, body |-> "", mimetype |-> "", raised |-> ""]
HttpResponse(body, status_code, mimetype) ==
    [status_code |-> status_code, body |-> body, mimetype |-> mimetype, raised |-> ""]
Unhandled(exception) ==
    [status_code |-> 0, body |-> "", mimetype |-> "", raised |-> exception]

api_base == "http://localhost:7071/api/"
Tokens == {"1", "_", "-", "a", "/", "?", "%20"}

RECURSIVE Tails(_)
Tails(n) ==
    IF n = 0 THEN {""}
    ELSE LET shorter == Tails(n - 1) IN
         shorter \cup {t \o k : t \in shorter, k \in Tokens}

Urls ==
    {api_base \o r \o t : r \in {"getmovies", "getmoviesbyyear/", "getmoviesummary/"},
                          t \in Tails(MaxTokens)}

\* The function the host routes a url to ("" when no route matches): the
\* path is matched without the query string and without a trailing slash,
\* a route parameter is one non-empty segment.
route(url) ==
    LET rest == SubSeq(url, Len(api_base) + 1, Len(url))
        q == Find(rest, "?", 1)
        path == IF q = 0 THEN rest ELSE SubSeq(rest, 1, q - 1)
        parts == split(path, "/")
        segs == IF Len(parts) > 1 /\ parts[Len(parts)] = ""
                THEN SubSeq(parts, 1, Len(parts) - 1) ELSE parts
    IN IF segs = <<"getmovies">> THEN "getMovies"
       ELSE IF Len(segs) = 2 /\ segs[1] = "getmoviesbyyear" /\ segs[2] # "" THEN "getMoviesByYear"
       ELSE IF Len(segs) = 2 /\ segs[1] = "getmoviesummary" /\ segs[2] # "" THEN "getMovieSummary"
       ELSE ""

\* url_parts[-1]
last_part(url) == LET url_parts == split(url, "/") IN url_parts[Len(url_parts)]

Receive ==
    /\ req = NoRequest
    /\ \E url \in Urls :
          /\ route(url) # ""
          /\ req' = [url |-> url, function |-> route(url)]
    /\ UNCHANGED <<resp, queries, chats, display, deployVars, appVars>>

Serving(function) == req.function = function /\ resp = NoResponse

getMovies ==
    /\ Serving("getMovies")
    /\ \E dbres \in DbOutcomes :
          LET query_result == query_db(TitleYearGenresRows(container), dbres) IN
          /\ queries' = Append(queries, [where |-> "", value |-> ""])
          /\ display' = display \o query_db_displays(dbres)
                                \o <<Displayed(query_result, NoSummary)>>
          /\ resp' = HttpResponse(display_result(query_result, NoSummary), 200, "application/json")
    /\ UNCHANGED <<req, chats, deployVars, appVars>>

year_error_message ==
    "Please provide a valid year as part of the url: http://localhost:7071/api/getmoviesbyyear/year"

getMoviesByYear ==
    /\ Serving("getMoviesByYear")
    /\ LET year == last_part(req.url) IN
       IF year = ""
       THEN \* the if is skipped and the return reads the unassigned response
            /\ resp' = Unhandled("UnboundLocalError")
            /\ UNCHANGED <<queries, display>>
       ELSE IF ~int_returns(year)
       THEN /\ resp' = HttpResponse(year_error_message, 400, "text/plain")
            /\ UNCHANGED <<queries, display>>
       ELSE \E dbres \in DbOutcomes :
            LET query_result ==
                    query_db(TitleYearGenresRows(SelectSeq(container, LAMBDA item : item.year = JStr(year))),
                             dbres)
            IN
            /\ queries' = Append(queries, [where |-> "c.year = @year", value |-> year])
            /\ display' = display \o query_db_displays(dbres)
                                  \o <<Displayed(query_result, NoSummary)>>
            /\ resp' = HttpResponse(display_result(query_result, NoSummary), 200, "application/json")
    /\ UNCHANGED <<req, chats, deployVars, appVars>>

name_error_message ==
    "Please provide a movie name as part of the url: http://localhost:7071/api/getmoviesbyyear/movie-name"

\* str(year) in the instruction
YearText(year) == IF IsInt(year) THEN ToString(year.int) ELSE year.str

\* fetch_movie_summary with the language model asked before the result is tested
getMovieSummary_chat_before_test ==
    /\ Serving("getMovieSummary")
    /\ LET movie_name == unquote(strip(last_part(req.url))) IN
       IF movie_name = ""
       THEN /\ resp' = HttpResponse(name_error_message, 400, "text/plain")
            /\ UNCHANGED <<queries, chats, display>>
       ELSE \E dbres \in DbOutcomes, chat \in ChatOutcomes :
            LET query_result ==
                    query_db(title_year_genres_rows(
                                 SelectSeq(container,
                                           LAMBDA item : LOWER(item.title) = LOWER(movie_name))),
                             dbres)
                not_found == JStr("Movie not in database.")
                chat_failed == JStr("An error occurred while generating a summary for "
                                    \o movie_name \o ". Please try again later.")
            IN
            /\ queries' = Append(queries, [where |-> "LOWER(c.title) = LOWER(@movie_name)",
                                           value |-> movie_name])
            /\ IF IsList(query_result) /\ query_result.list = <<>>
               THEN /\ display' = display \o <<Displayed(not_found, NoSummary)>>
                    /\ resp' = HttpResponse(display_result(not_found, NoSummary), 200, "application/json")
                    /\ chats' = Append(chats, "Write a plot summary for the movie " \o movie_name)
               ELSE IF IsStr(query_result)
               THEN \* query_result[0]['year'] of a str raises TypeError
                    /\ display' = display \o query_db_displays(dbres)
                    /\ resp' = Unhandled("TypeError")
                    /\ UNCHANGED chats
               ELSE /\ chats' = Append(chats, "Write a plot summary for the movie " \o movie_name
                                              \o " released in "
                                              \o YearText(getitem(query_result.list[1], "year")))
                    /\ IF chat = "raise"
                       THEN /\ display' = display \o <<Displayed(chat_failed, NoSummary)>>
                            /\ resp' = HttpResponse(display_result(chat_failed, NoSummary),
                                                    200, "application/json")
                       ELSE /\ display' = display \o <<Displayed(query_result, ChatResponse(chat))>>
                            /\ resp' = HttpResponse(display_result(query_result, ChatResponse(chat)),
                                                    200, "application/json")
    /\ UNCHANGED <<req, deployVars, appVars>>

getMovieSummary ==
    /\ Serving("getMovieSummary")
    /\ LET movie_name == unquote(strip(last_part(req.url))) IN
       IF movie_name = ""
       THEN /\ resp' = HttpResponse(name_error_message, 400, "text/plain")
            /\ UNCHANGED <<queries, chats, display>>
       ELSE \E dbres \in DbOutcomes, chat \in ChatOutcomes :
            LET query_result ==
                    query_db(title_year_genres_rows(
                                 SelectSeq(container,
                                           LAMBDA item : LOWER(item.title) = LOWER(movie_name))),
                             dbres)
                not_found == JStr("Movie not in database.")
                chat_failed == JStr("An error occurred while generating a summary for "
                                    \o movie_name \o ". Please try again later.")
            IN
            /\ queries' = Append(queries, [where |-> "LOWER(c.title) = LOWER(@movie_name)",
                                           value |-> movie_name])
            /\ IF IsList(query_result) /\ query_result.list = <<>>
               THEN /\ display' = display \o <<Displayed(not_found, NoSummary)>>
                    /\ resp' = HttpResponse(display_result(not_found, NoSummary), 200, "application/json")
                    /\ UNCHANGED chats
               ELSE IF IsStr(query_result)
               THEN \* query_result[0]['year'] of a str raises TypeError
                    /\ display' = display \o query_db_displays(dbres)
                    /\ resp' = Unhandled("TypeError")
                    /\ UNCHANGED chats
               ELSE /\ chats' = Append(chats, "Write a plot summary for the movie " \o movie_name
                                              \o " released in "
                                              \o YearText(getitem(query_result.list[1], "year")))
                    /\ IF chat = "raise"
                       THEN /\ display' = display \o <<Displayed(chat_failed, NoSummary)>>
                            /\ resp' = HttpResponse(display_result(chat_failed, NoSummary),
                                                    200, "application/json")
                       ELSE /\ display' = display \o <<Displayed(query_result, ChatResponse(chat))>>
                            /\ resp' = HttpResponse(display_result(query_result, ChatResponse(chat)),
                                                    200, "application/json")
    /\ UNCHANGED <<req, deployVars, appVars>>

(***************************************************************************)
(* Pycloud Deployer modules.py: the validators of names, usernames and     *)
(* passwords.  prompt holds the function called, the candidate it judged   *)
(* last and the verdict: "returned", "rejected" (the loop goes on), or     *)
(* "prompting" (the function waits in input()).                            *)
(***************************************************************************)
MaxNameLen == 91
MaxRetries == 1

\* config.py: the range of a resource's name, "for uniformity"
min_name_limit == 2
max_name_limit == 64

AlphaNumeric ==
    {Char(UpperCase, i) : i \in 1..Len(UpperCase)}
    \cup {Char(LowerCase, i) : i \in 1..Len(LowerCase)} \cup Digits

\* \w
Word == AlphaNumeric \cup {"_"}

\* re.match(r'^[First][Middle]*[Last]$', name); $ also matches before a
\* newline that ends the string
re_match(name, First, Middle, Last) ==
    LET full(t) == /\ Len(t) >= 2
                   /\ Char(t, 1) \in First
                   /\ Char(t, Len(t)) \in Last
                   /\ \A i \in 2..(Len(t) - 1) : Char(t, i) \in Middle
    IN \/ full(name)
       \/ name # "" /\ Char(name, Len(name)) = "\n" /\ full(SubSeq(name, 1, Len(name) - 1))

\* re.match(r'^[Class]+$', name)
re_match_all(name, Class) ==
    LET full(t) == t # "" /\ \A i \in 1..Len(t) : Char(t, i) \in Class
    IN \/ full(name)
       \/ name # "" /\ Char(name, Len(name)) = "\n" /\ full(SubSeq(name, 1, Len(name) - 1))

\* What the user may type at input() or getpass(): a first character, a few
\* characters after it, lower-case letters up to the length, a last character.
Candidates ==
    LET RECURSIVE fill(_)
        fill(n) == IF n <= 0 THEN "" ELSE "a" \o fill(n - 1)
        build(head, middle, tail, n) ==
            IF n = 0 THEN ""
            ELSE IF n = 1 THEN head
            ELSE IF n < 2 + Len(middle) THEN head \o fill(n - 2) \o tail
            ELSE head \o middle \o fill(n - 2 - Len(middle)) \o tail
    IN {build(head, middle, tail, n) :
            head \in {"a", "Z", "1", "-", "_", "."},
            middle \in {"", "Root", "9$", " "},
            tail \in {"a", "1", "-", "_", ".", ")"},
            n \in {0, 1, 2, 3, 9, 10, 12, 13, 62, 63, 64, 65, 90, MaxNameLen}}

\* One turn of a validator's loop: after a rejection it asks again, else it
\* judges the candidate, one of Offered, and returns it if it is in Accepted.
Judge(fn, Offered, Accepted) ==
    /\ prompt.fn \in {"", fn}
    /\ prompt.verdict # "returned"
    /\ IF prompt.verdict = "rejected"
       THEN prompt' = [fn |-> fn, candidate |-> "", verdict |-> "prompting"]
       ELSE \E name \in Offered :
              prompt' = [fn |-> fn, candidate |-> name,
                         verdict |-> IF name \in Accepted THEN "returned" ELSE "rejected"]
    /\ UNCHANGED <<deployVars, movieVars, weather>>

\* validate_group_name(group_name): the first candidate is the argument.
validate_group_name ==
    Judge("validate_group_name",
          IF prompt.verdict = "none"
          THEN Candidates \cup {name \o "\n" : name \in {c \in Candidates : Len(c) <= 2}}
          ELSE Candidates,
          {name \in STRING :
              /\ re_match_all(name, Word \cup {"_", "(", ")", "-", "."})
              /\ Len(name) <= 90})

get_vnet_or_subnet_name ==
    Judge("get_vnet_or_subnet_name", Candidates,
          {name \in STRING :
              /\ re_match(name, AlphaNumeric, Word \cup {".", "-"}, AlphaNumeric \cup {"_"})
              /\ Len(name) <= 90})

get_nsg_name ==
    Judge("get_nsg_name", Candidates,
          {name \in STRING :
              /\ re_match(name, AlphaNumeric, AlphaNumeric \cup {"_", ".", "-"},
                          AlphaNumeric \cup {"_"})
              /\ 2 <= Len(name) /\ Len(name) <= 64})

get_server_name ==
    Judge("get_server_name", Candidates,
          {vm_name \in STRING :
              /\ re_match(vm_name, AlphaNumeric, AlphaNumeric \cup {"-"}, AlphaNumeric)
              /\ 1 <= Len(vm_name) /\ Len(vm_name) <= 64})

get_username ==
    LET reserved_words == {"admin", "root", "superuser", "user"}
        contains(text, word) ==
            \E i \in 1..(Len(text) - Len(word) + 1) : SubSeq(text, i, i + Len(word) - 1) = word
    IN Judge("get_username", Candidates,
             {username \in STRING :
                 /\ 9 < Len(username) /\ Len(username) < 64
                 /\ re_match(username, Word, Word \cup {"-"}, Word \cup {"-"})
                 /\ ~\E word \in reserved_words : contains(LOWER(username), word)})

get_password ==
    LET password_requirements ==
            << {Char(UpperCase, i) : i \in 1..Len(UpperCase)},
               {Char(LowerCase, i) : i \in 1..Len(LowerCase)},
               Digits,
               {"$", "+", "#", "!", "^", "%", "*", "-", "="} >>
        search(pattern, password) == \E i \in 1..Len(password) : Char(password, i) \in pattern
        matches_passed(password) ==
            Cardinality({k \in 1..4 : search(password_requirements[k], password)})
    IN Judge("get_password", Candidates,
             {password \in STRING :
                 /\ 12 < Len(password) /\ Len(password) < 63
                 /\ matches_passed(password) >= 3})

(***************************************************************************)
(* Weather App.  Python's float is the IEEE 754 double: a value is kept as *)
(* [m, e], standing for m * 2^e, where m is the 53-bit significand written *)
(* in limbs of 11 bits, the least significant first; zero has no limbs.    *)
(* Every operation rounds its exact result to the nearest double, ties to  *)
(* even.  The values of the model are not negative and far from the        *)
(* overflow and underflow thresholds.                                      *)
(***************************************************************************)
Zero == [m |-> <<>>, e |-> 0]

\* The limbs of the natural whose columns (least significant first, each one
\* weighing 2^11 times the one before) are cols, plus c.
RECURSIVE Carry(_, _)
Carry(cols, c) ==
    IF cols = <<>>
    THEN (IF c = 0 THEN <<>> ELSE <<c % 2^11>> \o Carry(<<>>, c \div 2^11))
    ELSE <<(cols[1] + c) % 2^11>> \o Carry(Tail(cols), (cols[1] + c) \div 2^11)

\* The double nearest to n * 2^e (plus something below the last bit of n when
\* sticky), ties to even.
float_round(n, e, sticky) ==
    LET at(v, j) == IF j \in 1..Len(v) THEN v[j] ELSE 0
        Trim(v) ==
            LET used == {j \in 1..Len(v) : v[j] # 0} IN
            IF used = {} THEN <<>>
            ELSE SubSeq(v, 1, CHOOSE j \in used : \A k \in used : k <= j)
        BitLength(v) ==
            IF v = <<>> THEN 0
            ELSE 11 * (Len(v) - 1)
                 + CHOOSE b \in 1..11 : 2^(b - 1) <= v[Len(v)] /\ v[Len(v)] < 2^b
        ShiftRight(v, s) ==
            Trim([j \in 1..Len(v) |->
                     at(v, j + (s \div 11)) \div 2^(s % 11)
                     + (at(v, j + (s \div 11) + 1) % 2^(s % 11)) * 2^(11 - (s % 11))])
        ShiftLeft(v, s) ==
            Trim([j \in 1..(Len(v) + (s \div 11) + 1) |->
                     (at(v, j - (s \div 11)) % 2^(11 - (s % 11))) * 2^(s % 11)
                     + at(v, j - (s \div 11) - 1) \div 2^(11 - (s % 11))])
        whole == Trim(n)
        sh == BitLength(whole) - 53
        bit(i) == (whole[i \div 11 + 1] \div 2^(i % 11)) % 2
        kept == ShiftRight(whole, sh)
        rest == sticky \/ \E i \in 0..(sh - 2) : bit(i) = 1
        up == bit(sh - 1) = 1 /\ (rest \/ (kept[1] % 2) = 1)
        m == IF up THEN Carry(kept, 1) ELSE kept
    IN IF whole = <<>> THEN Zero
       ELSE IF sh <= 0 THEN [m |-> ShiftLeft(whole, 0 - sh), e |-> e + sh]
       ELSE IF BitLength(m) = 54 THEN [m |-> ShiftRight(m, 1), e |-> e + sh + 1]
       ELSE [m |-> m, e |-> e + sh]

\* The double a decimal literal or a JSON number num/den is read as; for an
\* int, the float it is converted to before it meets a float.  The quotient
\* is taken to 8 limbs after the point.
float_of(num, den) ==
    LET RECURSIVE Divide(_, _, _)
        Divide(limbs, r, k) ==
            IF k = 0 THEN float_round(limbs, 0 - 88, r # 0)
            ELSE Divide(<<(r * 2^11) \div den>> \o limbs, (r * 2^11) % den, k - 1)
    IN Divide(Carry(<<num \div den>>, 0), num % den, 8)

\* x * y
float_mul(x, y) ==
    LET RECURSIVE Column(_, _)
        Column(k, i) ==
            IF i > Len(x.m) THEN 0
            ELSE (IF k - i \in 1..Len(y.m) THEN x.m[i] * y.m[k - i] ELSE 0) + Column(k, i + 1)
    IN IF x = Zero \/ y = Zero THEN Zero
       ELSE float_round(Carry([k \in 1..(Len(x.m) + Len(y.m) - 1) |-> Column(k + 1, 1)], 0),
                        x.e + y.e, FALSE)

\* x + y
float_add(x, y) ==
    IF x = Zero THEN y
    ELSE IF y = Zero THEN x
    ELSE LET e == IF x.e < y.e THEN x.e ELSE y.e
             \* v.m * 2^(v.e - e), in columns
             aligned(v) == [j \in 1..((v.e - e) \div 11) |-> 0]
                           \o [j \in 1..Len(v.m) |-> v.m[j] * 2^((v.e - e) % 11)]
             at(v, j) == IF j \in 1..Len(v) THEN v[j] ELSE 0
             longest == IF Len(aligned(x)) > Len(aligned(y))
                        THEN Len(aligned(x)) ELSE Len(aligned(y))
         IN float_round(Carry([j \in 1..longest |-> at(aligned(x), j) + at(aligned(y), j)], 0),
                        e, FALSE)

\* unit_conversions.py
temperature_fahrenheit(temp) == float_add(float_mul(temp, float_of(18, 10)), float_of(32, 1))
temperature_kelvin(temp) == float_add(temp, float_of(27315, 100))
wind_speed_mph(wnd_spd) == float_mul(wnd_spd, float_of(223694, 100000))
wind_speed_kmh(wnd_spd) == float_mul(wnd_spd, float_of(36, 10))

(***************************************************************************)
(* weather_app.py.  weather holds the position of main(), what the user    *)
(* entered, the outcome of the API request, what get_weather returned,     *)
(* what was printed and the exception that ended the run.  A str is        *)
(* JStr(text); the response dictionary is [data |-> <<record>>].  A row of *)
(* the table holds the values that display_weather formats.                *)
(***************************************************************************)
NoWeather ==
    [pc |-> "main", city |-> "", temperature_unit |-> 0, wind_speed_unit |-> 0,
     retries |-> 0, user_input |-> "", response |-> JStr(""), data |-> JStr(""),
     out |-> <<>>, raised |-> ""]

Printed(text) == [print |-> text]

main ==
    /\ weather.pc = "main"
    /\ \E city \in {"Lagos", "lagos", "Pari"} :
          weather' = [weather EXCEPT
                         !.out = Append(@, Printed("Welcome to the Weather app.\nFind out what the weather is like in your city or anywhere else in the world!\n")),
                         !.city = city,
                         !.pc = "temperature_unit"]
    /\ UNCHANGED <<deployVars, movieVars, prompt>>

\* One turn of get_user_input's loop, for the temperature unit and then for
\* the wind speed unit.  str.isdigit is true of the decimal digits and of
\* digits such as the superscript two, which int() does not accept.
get_user_input ==
    LET isdigit(text) ==
            text # "" /\ \A i \in 1..Len(text) : Char(text, i) \in Digits \cup {"²"}
        int_raises(text) == \E i \in 1..Len(text) : Char(text, i) \notin Digits
        RECURSIVE int(_)
        int(text) ==
            IF text = "" THEN 0
            ELSE 10 * int(SubSeq(text, 1, Len(text) - 1))
                 + (CHOOSE d \in 0..9 : ToString(d) = Char(text, Len(text)))
        asked == Printed(IF weather.pc = "temperature_unit"
                       THEN "Select temperature unit. You can press Enter to choose the default as indicated:\n1) Celsius (default)\n2) Kelvin\n3) Fahrenheit"
                       ELSE "Select wind speed unit:\n1) Metre per second (default)\n2) Miles per hour \n3) Kilometre per hour")
        read(user_input) ==
            [weather EXCEPT !.user_input = user_input, !.out = Append(@, asked)]
        return(user_input, option) ==
            weather' = IF weather.pc = "temperature_unit"
                       THEN [read(user_input) EXCEPT !.retries = 0,
                                                     !.temperature_unit = option,
                                                     !.pc = "wind_speed_unit"]
                       ELSE [read(user_input) EXCEPT !.retries = 0,
                                                     !.wind_speed_unit = option,
                                                     !.pc = "get_weather"]
        again(user_input, message) ==
            /\ weather.retries < MaxRetries
            /\ weather' = [read(user_input) EXCEPT !.out = Append(@, Printed(message)),
                                                   !.retries = @ + 1]
    IN /\ weather.pc \in {"temperature_unit", "wind_speed_unit"}
       /\ \E user_input \in {"", "1", "2", "3", "4", "03", "x", "²"} :
             IF Len(user_input) = 0 THEN return(user_input, 1)
             ELSE IF ~isdigit(user_input)
             THEN again(user_input, "Please input a valid option number.\n")
             ELSE IF int_raises(user_input)
             THEN \* int(user_input) raises ValueError, which nothing catches
                  weather' = [read(user_input) EXCEPT !.raised = "ValueError", !.pc = "raised"]
             ELSE IF 1 <= int(user_input) /\ int(user_input) <= 3
             THEN return(user_input, int(user_input))
             ELSE again(user_input, "Input out of range. Please input either 1, 2 or 3\n")
       /\ UNCHANGED <<deployVars, movieVars, prompt>>

\* get_weather(city): make_api_request returns the parsed response of status
\* 200 (a number of its JSON text being num/den) or the message of a failure.
get_weather ==
    LET make_api_request ==
            {[json |-> [city_name |-> city_name, temp |-> temp, rh |-> 60,
                        wind_spd |-> wind_spd, description |-> "Clear sky"]] :
                city_name \in {"Lagos", "Paris"},
                temp \in {<<0, 1>>, <<13, 1>>, <<244, 10>>},
                wind_spd \in {<<3, 1>>, <<1, 10>>}}
            \cup {JStr("API request failed with status code: 404"),
                  JStr("Couldn't complete your request because you are not connected to the internet. Please check your internet connection and try again."),
                  JStr("Your request timed out. Please try again later."),
                  JStr("An error occurred during the API request: Invalid URL")}
        \* response.json()
        json(response) ==
            [data |-> << [response.json EXCEPT
                             !.temp = float_of(@[1], @[2]),
                             !.wind_spd = float_of(@[1], @[2])] >>]
        validate_city_in_response(city, data) ==
            IF LOWER(city) = LOWER(data.data[1].city_name)
            THEN data
            ELSE JStr("The city you entered does not exist or could not be found.\nPlease check the spelling and try again.")
    IN /\ weather.pc = "get_weather"
       /\ \E response \in make_api_request :
             weather' =
                 IF IsStr(response)
                 THEN \* print(data); exit()
                      [weather EXCEPT !.response = response,
                                      !.out = Append(@, Printed(response.str)),
                                      !.pc = "exited"]
                 ELSE [weather EXCEPT
                          !.response = response,
                          !.data = validate_city_in_response(weather.city, json(response)),
                          !.pc = "display_weather"]
       /\ UNCHANGED <<deployVars, movieVars, prompt>>

display_weather ==
    LET data == weather.data
        city_data == data.data[1]
        temperature_conversion(key, x) ==
            CASE key = 2 -> temperature_kelvin(x)
              [] key = 3 -> temperature_fahrenheit(x)
              [] key = 1 -> x
        wind_speed_conversion(key, x) ==
            CASE key = 2 -> wind_speed_mph(x)
              [] key = 3 -> wind_speed_kmh(x)
              [] key = 1 -> x
    IN /\ weather.pc = "display_weather"
       /\ weather' =
              IF IsStr(data)
              THEN \* data["data"] of a str raises TypeError
                   [weather EXCEPT !.raised = "TypeError", !.pc = "raised"]
              ELSE [weather EXCEPT
                       !.out = Append(@, [City |-> city_data.city_name,
                                          Temperature |-> temperature_conversion(
                                              weather.temperature_unit, city_data.temp),
                                          Humidity |-> city_data.rh,
                                          WindSpeed |-> wind_speed_conversion(
                                              weather.wind_speed_unit, city_data.wind_spd),
                                          Description |-> city_data.description]),
                       !.pc = "done"]
       /\ UNCHANGED <<deployVars, movieVars, prompt>>

(***************************************************************************)
(* Properties of the provisioning flow.                                    *)
(***************************************************************************)
Succeeded == pc = "done" /\ outcome = "ok"
LastCall == calls[Len(calls)]
OpName(c) == <<c.op, c.name>>
OpNames(cs) == [i \in 1..Len(cs) |-> OpName(cs[i])]
IsLbCall(c) ==
    \/ c.op \in {"lb", "pool_get", "nic_update"}
    \/ c.op = "publicip" /\ c.name = "rg_lb_ip"

\* C1: in the flow of infra_class.py / server_class.py / load_balancer_class.py
\* a call is issued only if no earlier call of the run raised; the subnet call
\* follows an NSG call that returned an object, the load balancer call a public
\* ip call that did, and a NIC update a backend pool lookup that did.
C1_StepOnlyAfterSuccess ==
    /\ \A i, j \in DOMAIN calls : i < j => calls[i].res \notin NetErrors
    /\ \A j \in DOMAIN calls :
          /\ calls[j].op = "subnet" =>
                j > 1 /\ calls[j - 1].op = "nsg" /\ calls[j - 1].res = "ok"
          /\ calls[j].op = "lb" =>
                j > 1 /\ calls[j - 1].op = "publicip" /\ calls[j - 1].res = "ok"
          /\ calls[j].op = "nic_update" =>
                \E i \in 1..(j - 1) : calls[i].op = "pool_get" /\ calls[i].res = "ok"

C1_Witness ==
    /\ pc = "done"
    /\ outcome = "AzureError"
    /\ Len(calls) >= 6
    /\ LastCall.op = "vm"
    /\ LastCall.res = "ResourceNotFoundError"

\* C3: a successful tier3 run with N webservers issues its create, run-command
\* and attach calls in the order VNet, NSG, subnet, for each webserver public
\* ip, NIC, VM, IIS, then the DB server's NIC and VM, the load balancer's
\* public ip and the load balancer, then the attach of webserver 0 .. N-1; in
\* no run does a load balancer call precede a VM create or an attach precede
\* the load balancer create.
RECURSIVE WebserverSteps(_, _)
WebserverSteps(i, n) ==
    IF i >= n THEN <<>>
    ELSE << <<"publicip", "web" \o ToString(i) \o "_ip">>,
            <<"nic", "web" \o ToString(i) \o "_interface">>,
            <<"vm", "web" \o ToString(i)>>,
            <<"iis", "web" \o ToString(i)>> >> \o WebserverSteps(i + 1, n)

RECURSIVE AttachSteps(_, _)
AttachSteps(i, n) ==
    IF i >= n THEN <<>>
    ELSE << <<"nic_update", "web" \o ToString(i) \o "_interface">> >> \o AttachSteps(i + 1, n)

ExpectedTier3(n) ==
    << <<"vnet", "vnet">>, <<"nsg", "nsg">>, <<"subnet", "subnet">> >>
    \o WebserverSteps(0, n)
    \o << <<"nic", dbserver_name \o "_interface">>, <<"vm", dbserver_name>> >>
    \o << <<"publicip", "rg_lb_ip">>, <<"lb", "rg_lb">> >>
    \o AttachSteps(0, n)

IsLookup(c) == c.op = "pool_get"
NotLookup(c) == ~IsLookup(c)

C3_Tier3Order ==
    /\ Succeeded /\ args.tier = 3 =>
          OpNames(SelectSeq(calls, NotLookup)) = ExpectedTier3(args.number_of_webservers)
    /\ \A i, j \in DOMAIN calls :
          i < j => /\ ~(IsLbCall(calls[i]) /\ calls[j].op = "vm")
                   /\ ~(calls[i].op = "nic_update" /\ calls[j].op = "lb")

C3_Witness == Succeeded /\ args.tier = 3 /\ args.number_of_webservers = 2

\* C5: an error an SDK call raises in the tier-2 / tier-3 flow is caught and
\* logged where the call is made: the run then ends with the AzureError of
\* the handler and the error message is the last thing logged.
C5_ErrorsCaughtAndLogged ==
    pc = "done" /\ calls # <<>> /\ LastCall.res \in NetErrors =>
        /\ outcome = "AzureError"
        /\ log # <<>>
        /\ log[Len(log)][1] = "error"

\* C6: a tier2 run issues no load balancer call and no attach, and when it
\* succeeds it has created one webserver, <webserver_name>0, and one DB
\* server; a successful tier3 run with N webservers has created one load
\* balancer, <group>_lb, and the webservers <webserver_name>0 .. N-1.
IsWebVm(c) == c.op = "vm" /\ c.p.image = "WindowsServer"
IsDbVm(c) == c.op = "vm" /\ c.p.image = "sql2019-ws2019"
IsLbCreate(c) == c.op = "lb"
NamesOf(cs) == [i \in 1..Len(cs) |-> cs[i].name]

C6_Topology ==
    /\ args.tier = 2 => \A i \in DOMAIN calls : ~IsLbCall(calls[i])
    /\ Succeeded /\ args.tier = 2 =>
          /\ NamesOf(SelectSeq(calls, IsWebVm)) = <<"web0">>
          /\ NamesOf(SelectSeq(calls, IsDbVm)) = <<dbserver_name>>
    /\ Succeeded /\ args.tier = 3 =>
          /\ NamesOf(SelectSeq(calls, IsLbCreate)) = <<"rg_lb">>
          /\ NamesOf(SelectSeq(calls, IsWebVm)) =
                [i \in 1..args.number_of_webservers |-> "web" \o ToString(i - 1)]
          /\ NamesOf(SelectSeq(calls, IsDbVm)) = <<dbserver_name>>

C6_Witness ==
    /\ Succeeded /\ args.tier = 3 /\ args.number_of_webservers = 2
    /\ last.ok /\ last.args.tier = 2

\* C7: a successful tier3 run that follows a successful tier3 run with the
\* same arguments leaves the resource group with the same (type, name) pairs
\* and the same NIC to backend pool and NIC to public ip associations.
ResourceNames(c) == {<<r.type, r.name>> : r \in c}
NicAssociations(c) == {<<r.name, r.pool, r.ip>> : r \in {x \in c : x.type = "nic"}}

C7_Idempotent ==
    Succeeded /\ args.tier = 3 /\ last.ok /\ last.args = args =>
        /\ ResourceNames(cloud) = ResourceNames(last.cloud)
        /\ NicAssociations(cloud) = NicAssociations(last.cloud)

C7_Witness ==
    /\ Succeeded /\ args.tier = 3 /\ args.number_of_webservers = 2
    /\ last.ok /\ last.args = args

\* C10 as stated: info reports Tier 3 exactly when the group holds a load
\* balancer, so after a successful tier2 it reports Tier 2 and after a
\* successful tier3 Tier 3.
HasLb(c) == \E r \in c : r.type = "lb"

C10_InfoTier ==
    infoOut.printed =>
        /\ infoOut.tier = 3 <=> HasLb(cloud)
        /\ Succeeded /\ args.tier = 2 => infoOut.tier = 2
        /\ Succeeded /\ args.tier = 3 => infoOut.tier = 3

\* C10 amended: whenever info prints a tier it is 3 exactly when the group
\* holds a load balancer; after a successful tier3 it prints Tier 3, and
\* after a successful tier2 into a group that held no load balancer when the
\* run began it prints Tier 2.
C10_InfoTierAmended ==
    infoOut.printed =>
        /\ infoOut.tier \in {2, 3}
        /\ infoOut.tier = 3 <=> HasLb(cloud)
        /\ Succeeded /\ args.tier = 2 /\ ~HasLb(last.cloud) => infoOut.tier = 2
        /\ Succeeded /\ args.tier = 3 => infoOut.tier = 3

C10_Witness ==
    /\ infoOut.printed /\ infoOut.tier = 3
    /\ Succeeded /\ args.tier = 2 /\ HasLb(last.cloud)

\* C2: in pycloud_deployer.py a handler that ends with SystemExit(1) ends the
\* run: no remote call is issued after the call whose failure it handled.
C2_ExitTerminates ==
    \A k \in DOMAIN log : log[k][1] = "exit" => Len(calls) = log[k][3]

\* C4: every long-running operation a run starts has finished before the next
\* remote call is issued, and a NIC update has finished before "Added ... to
\* backend pool" is logged.
C4_Blocking ==
    \A i \in pending :
        /\ i = Len(calls)
        /\ calls[i].op = "nic_update" =>
              \A k \in DOMAIN log : log[k][2] # "Added to backend pool"

\* C11: in every provisioning entry point the VNet create call is issued
\* before the NSG create call, and the subnet create call after both.
C11_VNetBeforeNsg ==
    \A i, j \in DOMAIN calls :
        /\ calls[i].op = "nsg" /\ calls[j].op = "vnet" => j < i
        /\ calls[i].op = "subnet" /\ calls[j].op \in {"vnet", "nsg"} => j < i

(***************************************************************************)
(* Properties of the validators of modules.py.                             *)
(***************************************************************************)
Judged(fn) == prompt.fn = fn /\ prompt.verdict \in {"returned", "rejected"}
Returned(fn) == prompt.fn = fn /\ prompt.verdict = "returned"
Rejected(fn) == prompt.fn = fn /\ prompt.verdict = "rejected"
LengthWithin(text, low, high) == low <= Len(text) /\ Len(text) <= high
OnlyChars(text, Class) == \A i \in 1..Len(text) : Char(text, i) \in Class
Letters == AlphaNumeric \ Digits

\* C12: every resource-name validator (validate_group_name,
\* get_vnet_or_subnet_name, get_nsg_name, get_server_name) returns only names
\* whose length is between min_name_limit and max_name_limit inclusive.
C12_UniformNameLimits ==
    \A fn \in {"validate_group_name", "get_vnet_or_subnet_name",
               "get_nsg_name", "get_server_name"} :
        Returned(fn) => LengthWithin(prompt.candidate, min_name_limit, max_name_limit)

GroupNameRules(text) ==
    /\ text # ""
    /\ OnlyChars(text, AlphaNumeric \cup {"_", "(", ")", "-", "."})
    /\ Len(text) <= 90
    /\ Char(text, Len(text)) # "."

\* C13: validate_group_name returns only names made of alphanumerics,
\* underscores, parentheses, hyphens and periods, at most 90 characters long
\* and not ending with a period, and it returns the first candidate (the
\* argument, then each input) that satisfies these: it rejects none that does.
C13_GroupNameRules ==
    /\ Returned("validate_group_name") => GroupNameRules(prompt.candidate)
    /\ Rejected("validate_group_name") => ~GroupNameRules(prompt.candidate)

UsernameCharRules(text) ==
    /\ text # ""
    /\ Char(text, 1) \notin Digits \cup {"-"}
    /\ OnlyChars(text, AlphaNumeric \cup {"-", "_"})
    /\ \A word \in {"admin", "root", "superuser", "user"} :
          \A i \in 1..(Len(text) - Len(word) + 1) :
              LOWER(SubSeq(text, i, i + Len(word) - 1)) # word

\* C14: get_username never returns a username that starts with a hyphen or a
\* digit, that contains a character other than letters, digits, hyphens and
\* underscores, or that contains (in any case) admin, root, superuser or user.
C14_UsernameChars ==
    Returned("get_username") => UsernameCharRules(prompt.candidate)

\* C15: a username that passes the character and reserved-word rules is
\* accepted by get_username if and only if its length is between 9 and 64
\* inclusive.
C15_UsernameLength ==
    Judged("get_username") /\ UsernameCharRules(prompt.candidate) =>
        (prompt.verdict = "returned" <=> LengthWithin(prompt.candidate, 9, 64))

CharacterClasses(text) ==
    Cardinality({Class \in {Letters \cap {Char(UpperCase, i) : i \in 1..Len(UpperCase)},
                            Letters \cap {Char(LowerCase, i) : i \in 1..Len(LowerCase)},
                            Digits,
                            {"$", "+", "#", "!", "^", "%", "*", "-", "="}} :
                    \E i \in 1..Len(text) : Char(text, i) \in Class})

\* C16: get_password accepts a password if and only if its length is between
\* 12 and 63 inclusive and it has characters of at least 3 of the 4 classes
\* (upper case, lower case, digit, one of $ + # ! ^ % * - =); any other
\* password is asked for again.
C16_PasswordRules ==
    Judged("get_password") =>
        (prompt.verdict = "returned"
            <=> /\ LengthWithin(prompt.candidate, 12, 63)
                /\ CharacterClasses(prompt.candidate) >= 3)

\* C17: get_server_name accepts every name of 1 to 64 letters, digits and
\* hyphens that neither begins nor ends with a hyphen, a single character
\* included, and rejects every other name.
C17_ServerNameRules ==
    Judged("get_server_name") =>
        (prompt.verdict = "returned"
            <=> /\ LengthWithin(prompt.candidate, 1, 64)
                /\ OnlyChars(prompt.candidate, AlphaNumeric \cup {"-"})
                /\ Char(prompt.candidate, 1) # "-"
                /\ Char(prompt.candidate, Len(prompt.candidate)) # "-")

(***************************************************************************)
(* Properties of the Weather App.                                          *)
(***************************************************************************)
IsTable(line) == "City" \in DOMAIN line
ApiNumbers == weather.response.json

\* The double nearest to the exact result of a conversion of num/den.
ExactTemperature(option, t) ==
    CASE option = 1 -> float_of(t[1], t[2])
      [] option = 2 -> float_of(100 * t[1] + 27315 * t[2], 100 * t[2])
      [] option = 3 -> float_of(18 * t[1] + 320 * t[2], 10 * t[2])

ExactWindSpeed(option, v) ==
    CASE option = 1 -> float_of(v[1], v[2])
      [] option = 2 -> float_of(223694 * v[1], 100000 * v[2])
      [] option = 3 -> float_of(36 * v[1], 10 * v[2])

\* C18: the unit conversions are exact for every input, temperature_fahrenheit(t)
\* = 1.8*t + 32, temperature_kelvin(t) = t + 273.15, wind_speed_mph(v) =
\* 2.23694*v, wind_speed_kmh(v) = 3.6*v, and display_weather applies the
\* identity for unit option 1, Kelvin / mph for option 2 and Fahrenheit /
\* km/h for option 3: the table holds the exact converted values.
C18_ExactConversions ==
    weather.pc = "done" =>
        LET row == weather.out[Len(weather.out)] IN
        /\ row.Temperature = ExactTemperature(weather.temperature_unit, ApiNumbers.temp)
        /\ row.WindSpeed = ExactWindSpeed(weather.wind_speed_unit, ApiNumbers.wind_spd)

\* C19: display_weather is only ever called with a response dictionary, never
\* with an error string; when the city of the response does not match the
\* city entered (case-insensitively), the run shows "The city you entered
\* does not exist or could not be found." and prints no table.
C19_CityMismatchShown ==
    /\ weather.pc = "display_weather" => ~IsStr(weather.data)
    /\ /\ weather.pc \in {"done", "exited", "raised"}
       /\ ~IsStr(weather.response)
       /\ LOWER(weather.city) # LOWER(ApiNumbers.city_name)
       => /\ weather.raised = ""
          /\ \E k \in DOMAIN weather.out :
                weather.out[k] = Printed("The city you entered does not exist or could not be found.\nPlease check the spelling and try again.")
          /\ \A k \in DOMAIN weather.out : ~IsTable(weather.out[k])

\* What the claim expects of an input: the option it stands for, 0 when it
\* is to be asked again.
ExpectedOption(user_input) ==
    IF user_input = "" THEN 1
    ELSE IF \A i \in 1..Len(user_input) : Char(user_input, i) \in Digits
    THEN LET RECURSIVE Value(_)
             Value(text) ==
                 IF text = "" THEN 0
                 ELSE 10 * Value(SubSeq(text, 1, Len(text) - 1))
                      + (CHOOSE d \in 0..9 : ToString(d) = Char(text, Len(text)))
         IN IF Value(user_input) \in 1..3 THEN Value(user_input) ELSE 0
    ELSE 0

\* C23: get_user_input never raises, whatever is entered: on an empty input
\* it returns 1, on a number in 1..3 it returns that number, and on any other
\* input it prints a message and asks again; every value it returns is in
\* {1, 2, 3}.
C23_UserInputReturnsOption ==
    [][weather.pc \in {"temperature_unit", "wind_speed_unit"} =>
          LET option == ExpectedOption(weather'.user_input)
              returned == IF weather.pc = "temperature_unit"
                          THEN weather'.temperature_unit ELSE weather'.wind_speed_unit
          IN /\ weather'.raised = ""
             /\ IF option = 0
                THEN /\ weather'.pc = weather.pc
                     /\ Len(weather'.out) = Len(weather.out) + 2
                ELSE /\ weather'.pc # weather.pc
                     /\ returned = option
                     /\ returned \in {1, 2, 3}]_vars

(***************************************************************************)
(* Properties of the Movies API.                                           *)
(***************************************************************************)
Responded(function) == req.function = function /\ resp # NoResponse

\* C8: for every url routed to getMoviesByYear the handler returns a response
\* and raises nothing: status 400 with the "Please provide a valid year"
\* message when the last url segment is empty or not an integer literal, and
\* status 200 with a JSON body otherwise.
C8_YearAlwaysAnswered ==
    Responded("getMoviesByYear") =>
        /\ resp.raised = ""
        /\ IF last_part(req.url) # "" /\ int_returns(last_part(req.url))
           THEN resp.status_code = 200 /\ resp.mimetype = "application/json"
           ELSE resp.status_code = 400 /\ resp.body = year_error_message

\* C8 for a non-empty last segment: what the handler does in every other case.
C8_NonEmptyYearAnswered ==
    Responded("getMoviesByYear") /\ last_part(req.url) # "" =>
        /\ resp.raised = ""
        /\ IF int_returns(last_part(req.url))
           THEN resp.status_code = 200 /\ resp.mimetype = "application/json"
           ELSE resp.status_code = 400 /\ resp.body = year_error_message

\* The query of the request raised: query_db formatted its error message.
DbRaised == \E k \in DOMAIN display : display[k].result = JStr(db_error_message)

Within(text, part) ==
    \E i \in 1..(Len(text) - Len(part) + 1) : SubSeq(text, i, i + Len(part) - 1) = part

\* C20: when the database query raises, each of fetch_movies,
\* fetch_movies_by_year and fetch_movie_summary returns a JSON response that
\* carries the "An error occurred while querying the database" message,
\* raises nothing and does not call the language model.
C20_DbErrorAnswered ==
    \A function \in {"getMovies", "getMoviesByYear", "getMovieSummary"} :
        Responded(function) /\ DbRaised =>
            /\ resp.raised = ""
            /\ resp.mimetype = "application/json"
            /\ Within(resp.body, "An error occurred while querying the database")
            /\ chats = <<>>

MovieName == unquote(strip(last_part(req.url)))
MatchingRecords ==
    SelectSeq(container, LAMBDA item : LOWER(item.title) = LOWER(MovieName))
SummaryFailed ==
    display_result(JStr("An error occurred while generating a summary for "
                        \o MovieName \o ". Please try again later."), NoSummary)

\* C21: fetch_movie_summary calls the language model only after the query has
\* returned at least one record; when the query returns no record the
\* response is "Movie not in database." and the language model is not called;
\* once the language model has been called the handler raises nothing: it
\* returns the summary, or the "error occurred while generating a summary"
\* message when the call raised.
C21_ChatOnlyAfterRecord ==
    /\ chats # <<>> =>
          /\ req.function = "getMovieSummary"
          /\ ~DbRaised
          /\ MatchingRecords # <<>>
    /\ Responded("getMovieSummary") /\ queries # <<>> /\ ~DbRaised /\ MatchingRecords = <<>> =>
          /\ resp.raised = ""
          /\ resp.body = display_result(JStr("Movie not in database."), NoSummary)
          /\ chats = <<>>
    /\ Responded("getMovieSummary") /\ chats # <<>> =>
          /\ resp.raised = ""
          /\ Len(chats) = 1
          /\ \/ resp.body = SummaryFailed
             \/ \E text \in SummaryTexts :
                   resp.body = display_result(JList(title_year_genres_rows(MatchingRecords)),
                                              ChatResponse(text))

C21_Witness ==
    /\ Responded("getMovieSummary")
    /\ chats # <<>>
    /\ resp.body = SummaryFailed

AllWhitespace(text) == \A i \in 1..Len(text) : Char(text, i) \in Whitespace

\* C22: getMovieSummary never calls fetch_movie_summary with an empty or
\* whitespace-only movie name: a request whose last url segment unquotes to
\* an empty or all-whitespace string gets status 400 with the "Please
\* provide a movie name" message, and no query is sent.
C22_BlankNameRefused ==
    Responded("getMovieSummary") /\ AllWhitespace(unquote(last_part(req.url))) =>
        /\ resp.status_code = 400
        /\ resp.body = name_error_message
        /\ queries = <<>>

RdpRule == [name |-> "RDP-access-rule", protocol |-> "Tcp", port |-> "3389", priority |-> 110]
HttpRule == [name |-> "lb-HTTP-rule", protocol |-> "Tcp", port |-> "80", priority |-> 100]

RulesOfTier(tier) == IF tier = 2 THEN {RdpRule} ELSE {RdpRule, HttpRule}

DistinctRules(rules) ==
    \A r1, r2 \in rules : r1 # r2 => r1.name # r2.name /\ r1.priority # r2.priority

\* The requests create_nsg_group has sent in this run.
NsgCalls == {i \in DOMAIN calls : calls[i].op = "nsg" /\ calls[i].name = nsg_name}

\* C24: the NSG that create_nsg_group creates holds exactly the RDP rule (TCP
\* 3389, priority 110) in a tier-2 deployment and exactly the RDP rule and the
\* HTTP rule (TCP 80, priority 100) in a tier-3 deployment, and the rules of
\* one NSG have pairwise distinct names and priorities.
C24_NsgRules ==
    /\ args.tier \in {2, 3} =>
          \A i \in NsgCalls :
             /\ calls[i].p.rules = RulesOfTier(args.tier)
             /\ calls[i].res \in {"ok", "none"} =>
                   \E n \in cloud :
                      n.type = "nsg" /\ n.name = nsg_name /\ n.rules = RulesOfTier(args.tier)
    /\ \A n \in cloud : n.type = "nsg" => DistinctRules(n.rules)

C24_Witness ==
    /\ args.tier = 2
    /\ runs > 0
    /\ \E i \in NsgCalls : calls[i].res = "ok"
    /\ \E n \in cloud : n.type = "nsg" /\ n.name = nsg_name /\ n.rules = {RdpRule}

\* The NIC updates of add_webserver_to_backend in this run, and the state a
\* NIC was put in by the last request on it before call number i.
PoolUpdates == {i \in DOMAIN calls : calls[i].op = "nic_update"}
NicPutsBefore(i) ==
    {j \in 1..(i - 1) : calls[j].op \in {"nic", "nic_update"} /\ calls[j].name = calls[i].name}
NicBefore(i) == calls[CHOOSE j \in NicPutsBefore(i) : \A k \in NicPutsBefore(i) : k <= j].p

\* C25: after a successful tier3 run with N webservers, exactly the NICs
\* <webserver_name>i_interface, i in 0..N-1, have been updated to reference
\* the backend address pool <group>_lb_addr_pool of the load balancer
\* <group>_lb, the names create_lb used; each update keeps the NIC's subnet
\* and its own public ip <webserver_name>i_ip; the DB server's NIC is never
\* added to the pool.
C25_BackendPoolNics ==
    Succeeded /\ args.tier = 3 =>
       /\ {calls[i].name : i \in PoolUpdates} =
             {"web" \o ToString(k) \o "_interface" : k \in 0..(args.number_of_webservers - 1)}
       /\ \A i \in PoolUpdates :
             /\ calls[i].p.pool = "rg/loadBalancers/rg_lb/backendAddressPools/rg_lb_addr_pool"
             /\ \E j \in 1..(i - 1) :
                   /\ calls[j].op = "lb"
                   /\ calls[i].p.pool = pool_id(calls[j].name, calls[j].p.pool)
             /\ NicPutsBefore(i) # {}
             /\ calls[i].p.subnet = NicBefore(i).subnet
             /\ calls[i].p.ip = NicBefore(i).ip
             /\ \E k \in 0..(args.number_of_webservers - 1) :
                   /\ calls[i].name = "web" \o ToString(k) \o "_interface"
                   /\ calls[i].p.ip = "rg/publicIPAddresses/web" \o ToString(k) \o "_ip"
             /\ \E n \in cloud :
                   n.type = "nic" /\ n.name = calls[i].name /\ n.pool = calls[i].p.pool
       /\ \A i \in PoolUpdates : calls[i].name # dbserver_name \o "_interface"
       /\ \A n \in cloud :
             n.type = "nic" /\ n.name = dbserver_name \o "_interface" => n.pool = ""

\* C9: display_result called with a summary returns a JSON object whose keys
\* are Title, Year, Genres, Summary in that order, Genres being the record's
\* genres joined by ", " in list order; called without a summary it returns
\* the JSON encoding of its argument.
RECURSIVE CommaSeparated(_)
CommaSeparated(strs) ==
    IF Len(strs) = 0 THEN ""
    ELSE IF Len(strs) = 1 THEN strs[1]
    ELSE CommaSeparated(SubSeq(strs, 1, Len(strs) - 1)) \o ", " \o strs[Len(strs)]

ScalarText(v) == IF IsInt(v) THEN ToString(v.int) ELSE "\"" \o v.str \o "\""

RECURSIVE GenreLines(_)
GenreLines(strs) ==
    IF Len(strs) = 1 THEN "\n            \"" \o strs[1] \o "\""
    ELSE GenreLines(SubSeq(strs, 1, Len(strs) - 1)) \o ",\n            \"" \o strs[Len(strs)] \o "\""

MovieText(m) ==
    "    {\n        \"Title\": " \o ScalarText(m.dict[1][2])
    \o ",\n        \"Year\": " \o ScalarText(m.dict[2][2])
    \o ",\n        \"Genres\": "
    \o (IF m.dict[3][2].list = <<>> THEN "[]"
        ELSE "[" \o GenreLines(Strs(m.dict[3][2])) \o "\n        ]")
    \o "\n    }"

RECURSIVE MovieLines(_)
MovieLines(ms) ==
    IF Len(ms) = 1 THEN MovieText(ms[1])
    ELSE MovieLines(SubSeq(ms, 1, Len(ms) - 1)) \o ",\n" \o MovieText(ms[Len(ms)])

SummaryText(call) ==
    LET m == call.result.list[1] IN
    "{\n    \"Title\": " \o ScalarText(getitem(m, "title"))
    \o ",\n    \"Year\": " \o ScalarText(getitem(m, "year"))
    \o ",\n    \"Genres\": \"" \o CommaSeparated(Strs(getitem(m, "genres"))) \o "\""
    \o ",\n    \"Summary\": \"" \o call.ai_summary.text \o "\"\n}"

RECURSIVE Escaped(_)
Escaped(s) ==
    IF s = "" THEN ""
    ELSE Escaped(SubSeq(s, 1, Len(s) - 1))
         \o (IF Char(s, Len(s)) = "\"" THEN "\\\""
             ELSE IF Char(s, Len(s)) = "\\" THEN "\\\\"
             ELSE Char(s, Len(s)))

PlainText(v) ==
    IF IsStr(v) THEN "\"" \o Escaped(v.str) \o "\""
    ELSE IF v.list = <<>> THEN "[]"
    ELSE "[\n" \o MovieLines(v.list) \o "\n]"

C9_DisplayResult ==
    \A i \in DOMAIN display :
        display[i].out = IF display[i].ai_summary.given
                         THEN SummaryText(display[i])
                         ELSE PlainText(display[i].result)

C9_Witness ==
    /\ Responded("getMovieSummary")
    /\ display # <<>>
    /\ display[Len(display)].ai_summary = ChatResponse("S")
    /\ Len(getitem(display[Len(display)].result.list[1], "genres").list) = 2
    /\ resp.body = display[Len(display)].out

Init ==
    /\ dbserver_name \in DbServerNames
    /\ pc = "idle"
    /\ args = IdleArgs
    /\ idx = 0
    /\ calls = <<>>
    /\ pending = {}
    /\ log = <<>>
    /\ outcome = "none"
    /\ cloud = {}
    /\ last = NoRun
    /\ runs = 0
    /\ infoOut = NoInfo
    /\ req = NoRequest
    /\ resp = NoResponse
    /\ queries = <<>>
    /\ chats = <<>>
    /\ display = <<>>
    /\ prompt = NoPrompt
    /\ weather = NoWeather

Next ==
    \/ tier2
    \/ tier3
    \/ create_vnet
    \/ create_nsg_group
    \/ create_subnet
    \/ create_publicip_address
    \/ create_nic
    \/ create_vm
    \/ install_iis
    \/ create_dbserver_nic
    \/ create_dbserver_vm
    \/ create_lb_publicip
    \/ create_lb
    \/ get_backend_pool
    \/ add_webserver_to_backend
    \/ info

Spec == Init /\ [][Next]_vars

\* One run with the cloud side finishing unwaited operations when it likes.
InitSingle ==
    /\ dbserver_name \in DbServerNames
    /\ pc = "idle"
    /\ args = IdleArgs
    /\ idx = 0
    /\ calls = <<>>
    /\ pending = {}
    /\ log = <<>>
    /\ outcome = "none"
    /\ cloud = {}
    /\ last = NoRun
    /\ runs = MaxRuns - 1
    /\ infoOut = NoInfo
    /\ req = NoRequest
    /\ resp = NoResponse
    /\ queries = <<>>
    /\ chats = <<>>
    /\ display = <<>>
    /\ prompt = NoPrompt
    /\ weather = NoWeather

NextLRO == Next \/ LROComplete

SpecLRO == InitSingle /\ [][NextLRO]_vars

NextMono ==
    \/ pd_tier2
    \/ pd_tier3
    \/ pd_create_vnet
    \/ pd_create_nsg_group
    \/ pd_create_subnet
    \/ pd_create_publicip_address
    \/ pd_create_nic
    \/ pd_create_vm
    \/ pd_install_iis
    \/ pd_create_dbserver_nic
    \/ pd_create_dbserver_vm
    \/ pd_create_lb_publicip
    \/ pd_create_lb
    \/ pd_get_backend_pool
    \/ pd_add_webserver_to_backend

SpecMono == InitSingle /\ [][NextMono]_vars

NextMovies ==
    \/ Receive
    \/ getMovies
    \/ getMoviesByYear
    \/ getMovieSummary

SpecMovies == Init /\ [][NextMovies]_vars

NextClasses == WebServer_create_webserver

NextWeather ==
    \/ main
    \/ get_user_input
    \/ get_weather
    \/ display_weather

SpecWeather == Init /\ [][NextWeather]_vars

NextNames ==
    \/ validate_group_name
    \/ get_vnet_or_subnet_name
    \/ get_nsg_name
    \/ get_server_name
    \/ get_username
    \/ get_password

SpecNames == Init /\ [][NextNames]_vars

SpecClasses == Init /\ [][NextClasses]_vars
====
